---- MODULE Spec2Model ----
(***************************************************************************)
(* chankit: composable stream operators over Go channels.                  *)
(*                                                                         *)
(* One operator instance runs per behaviour (op, chosen in Init) between a *)
(* producer that owns the source channel(s) and a consumer that receives   *)
(* from the operator's output.  Channels are unbuffered (bufferSize 0,     *)
(* the default of applyChanOptions): a receive from a source is the        *)
(* rendezvous with the producer's send, a send on the output is the        *)
(* rendezvous with the consumer's receive.  Every Go select is one atomic  *)
(* step that takes any one of its ready cases.                             *)
(***************************************************************************)
EXTENDS Integers, Sequences, FiniteSets, TLC

\* ------------------------------------------------------------------ bounds
\* longest source sequence
MaxLen == 3
\* largest source value (values are 1..MaxVal)
MaxVal == 2
\* largest count / batchSize argument
MaxCount == 2
\* the duration argument (interval, timeout) in clock units
Interval == 2
\* most values a never-ending generator (Repeat) is followed for
MaxOut == 3
\* longest source sequence of each channel given to Merge, and of Delay (one
\* goroutine per value)
MaxFan == 2
\* longest source sequence of FlatMap (one forwarder goroutine per value)
MaxFlat == 1
\* longest source sequence of FlatMap where it is run alone (FlatMapSpec)
MaxInner == 2
\* width in bits of the integer types Range is run on (uint8 and int8 scaled down)
Bits == 3
\* most ChanOption arguments of one call
MaxOpts == 2

Values == 1..MaxVal

RECURSIVE SeqsUpTo(_)
SeqsUpTo(k) ==
    IF k = 0 THEN {<<>>}
    ELSE LET shorter == SeqsUpTo(k - 1)
         IN  shorter \cup {Append(s, v) : s \in {t \in shorter : Len(t) = k - 1}, v \in Values}

\* <<1, 2, ..., m>>
Iota(m) == [i \in 1..m |-> i]

\* ------------------------------------------------------------------- state
VARIABLES
    op,        \* the operator under test
    n,         \* its count argument (Take/Skip count, Batch batchSize, Merge's number of channels)
    src,       \* src[i]: every value source i's producer ever sends, in order
    recvd,     \* recvd[i]: how many values have been received from source i
    closed,    \* closed[i]: the producer of source i has closed it (after its last send)
    ctxDone,   \* ctx.Done() is closed
    pc,        \* position of the operator's main goroutine
    val,       \* the value(s) the goroutine holds between its receive and its send
    cnt,       \* taken (Take) / skipped (Skip)
    skipping,  \* SkipWhile's flag
    pending,   \* Throttle/Debounce: <<>> (nil) or <<v>>
    queue,     \* FixedInterval's queue
    batch,     \* Batch's accumulator
    tleft,     \* clock units until the ticker/timer fires next (0: not armed)
    tfired,    \* an expiry waits in the ticker's/timer's channel
    timerCh,   \* Batch: timerCh is non-nil
    wpc,       \* wpc[j]: position of worker goroutine j (Merge forwarders, FlatMap forwarders,
               \*          Delay's goroutine per value)
    wval,      \* wval[j]: the value worker j holds
    wrecvd,    \* wrecvd[j]: values FlatMap's forwarder j has received from its inner channel
    wtleft,    \* wtleft[j]: clock units until the timer of Delay's goroutine j fires
    draining,  \* channels a drain goroutine was started for: <<"in", i>>, <<"inner", j>>
    out,       \* every value the consumer received from the output, in order
    outClosed, \* the output was closed
    outAt,     \* history: recvd[1] at each delivery
    late,      \* history: deliveries made after ctx.Done() was closed
    since,     \* history: clock units since the last delivery (saturates at Interval)
    gapOK,     \* history: every delivery so far came at least Interval after the previous one
    tapped,    \* history: the values the caller's function was called on (Tap's function,
               \*          SkipWhile's predicate)
    waited,    \* history: clock units since the arrival the wait is measured from: the last
               \*          value received (Throttle, Debounce, Timeout; for Timeout the start
               \*          when nothing was received), the first item of the batch (Batch);
               \*          saturates at Interval
    elapsed,   \* history: Batch: the timer case sent a batch
    burstEnd,  \* history: Debounce: recvd[1] at each arrival that came at least Interval
               \*          after the one before it (the index of the last value of a burst)
    exitBy,    \* history: why the main goroutine returned ("ctxDrain", "drained":
               \*          FixedInterval while emptying / after emptying its queue)
    signed,    \* Range: the integer type T is signed
    start,     \* Range's arguments
    end,
    step,
    idx,       \* Range: the loop variable i
    opts,      \* the ChanOption arguments of a constructor, in order
    bufferSize, \* cfg.bufferSize when the channel is made
    made,      \* "no": make(chan T, bufferSize) not yet run; "ok": it returned; "panic"
    accumulator, \* a terminal's local result (Reduce's accumulator, Count's count, Last's last)
    found,     \* Last's found
    ret        \* <<>> until the terminal returns; then the values it returned

params  == <<op, n, src>>
locals  == <<val, cnt, skipping, pending, queue, batch>>
timers  == <<tleft, tfired, timerCh>>
workers == <<wpc, wval, wrecvd>>
hist    == <<outAt, late, gapOK, tapped>>
arrive  == <<waited, burstEnd>>
aux     == <<elapsed, wtleft>>
gen     == <<signed, start, end, step, idx>>
conf    == <<opts, bufferSize, made>>
term    == <<accumulator, found, ret>>
apart   == <<gen, conf, term>>
vars    == <<op, n, src, recvd, closed, ctxDone, pc, val, cnt, skipping, pending,
             queue, batch, tleft, tfired, timerCh, wpc, wval, wrecvd, draining, out,
             outClosed, outAt, late, since, gapOK, tapped, waited, burstEnd, exitBy,
             elapsed, wtleft, signed, start, end, step, idx, opts, bufferSize, made,
             accumulator, found, ret>>

\* ---------------------------------------------------------------- operators
Timed     == {"Throttle", "FixedInterval", "Batch", "Debounce"}
Timing    == {"Delay", "Timeout"}
OneInput  == {"Take", "Skip", "TakeWhile", "SkipWhile", "Tap", "Map", "Filter", "FlatMap"}
                \cup Timed \cup Timing
Ops       == OneInput \cup {"Zip", "Merge", "Repeat"}

\* operators whose code applies a caller's function to the values
Inspecting == {"TakeWhile", "SkipWhile", "Tap", "Map", "Filter"}

\* operators that run several sender goroutines
FanIn == {"Merge", "FlatMap"}

\* the channels operator o reads (Merge is given k channels)
Sources(o, k) ==
    IF o = "Repeat" THEN {}
    ELSE IF o = "Zip" THEN {1, 2}
    ELSE IF o = "Merge" THEN 1..k
    ELSE {1}

\* the value the tests repeat
RepeatValue == 99

\* the values of a second source, distinct from those of the first
Second(m) == [i \in 1..m |-> 10 + i]

\* the functions of the tests
mapFunc(x) == x * 2
filterFunc(x) == x % 2 = 0
\* the inner channel flatMapFunc returns for x: SliceToChan(ctx, []int{x, x * 2})
flatMapFunc(x) == <<x, x * 2>>

\* the predicate of the tests ("with even number predicate")
predicate(v) == v % 2 = 0

Counts(o) ==
    IF o \in {"Take", "Skip"} THEN (-1)..MaxCount
    ELSE IF o = "Merge" THEN 0..2
    ELSE IF o = "Batch" THEN 1..MaxCount
    ELSE {0}

Inputs(o) ==
    IF o \in Inspecting THEN SeqsUpTo(MaxLen)
    ELSE IF o = "FlatMap" THEN {Iota(m) : m \in 0..MaxFlat}
    ELSE IF o = "Delay" THEN {Iota(m) : m \in 0..MaxFan}
    ELSE {Iota(m) : m \in 0..MaxLen}

\* the longest source operator o is run on
MaxIn(o) == IF o = "Merge" THEN MaxFan ELSE MaxLen

\* the pairs of source sequences operator o is run on
SrcsOf(o, k) ==
    IF o \in {"Zip", "Merge"}
    THEN {<<Iota(a), Second(b)>> :
            a \in {m \in 0..MaxIn(o) : 1 \in Sources(o, k) \/ m = 0},
            b \in {m \in 0..MaxIn(o) : 2 \in Sources(o, k) \/ m = 0}}
    ELSE IF o = "Repeat" THEN {<<<<>>, <<>>>>}
    ELSE {<<a, <<>>>> : a \in Inputs(o)}

StartPc(o) ==
    IF o \in {"Map", "Filter"} THEN "range"
    ELSE IF o = "Merge" THEN "wait"
    ELSE IF o = "Repeat" THEN "send"
    ELSE IF o = "Range" THEN "loop"
    ELSE IF o \in Timed \cup Timing THEN "select"
    ELSE "recv"

\* the goroutines started beside the main one
StartWorkers(o, k) == IF o = "Merge" THEN [j \in 1..k |-> "range"] ELSE <<>>

\* the state when operator o, called with count k on the sources s, has
\* started its goroutines
StartWith(o, k, s) ==
    /\ op = o
    /\ n = k
    /\ src = s
    /\ recvd = <<0, 0>>
    /\ closed = <<FALSE, FALSE>>
    /\ ctxDone = FALSE
    /\ pc = StartPc(op)
    /\ val = <<>>
    /\ cnt = 0
    /\ skipping = TRUE
    /\ pending = <<>>
    /\ queue = <<>>
    /\ batch = <<>>
    /\ tleft = (IF op \in {"Throttle", "FixedInterval", "Timeout"} THEN Interval ELSE 0)
    /\ tfired = FALSE
    /\ timerCh = FALSE
    /\ wpc = StartWorkers(op, n)
    /\ wval = [j \in DOMAIN wpc |-> <<>>]
    /\ wrecvd = <<>>
    /\ draining = {}
    /\ out = <<>>
    /\ outClosed = FALSE
    /\ outAt = <<>>
    /\ late = 0
    /\ since = Interval
    /\ gapOK = TRUE
    /\ tapped = <<>>
    /\ waited = (IF op = "Timeout" THEN 0 ELSE Interval)
    /\ burstEnd = <<>>
    /\ elapsed = FALSE
    /\ wtleft = <<>>
    /\ exitBy = "running"

\* no Range, no option and no terminal call is part of the run
NoGen  == signed = FALSE /\ start = 0 /\ end = 0 /\ step = 0 /\ idx = 0
NoConf == opts = <<>> /\ bufferSize = 0 /\ made = "ok"
NoTerm == accumulator = 0 /\ found = FALSE /\ ret = <<>>

Init ==
    /\ \E o \in Ops : \E k \in Counts(o) : \E s \in SrcsOf(o, k) : StartWith(o, k, s)
    /\ NoGen /\ NoConf /\ NoTerm

\* ------------------------------------------------------- channel primitives
\* a value of source i is ready to be received (its producer is sending)
CanRecv(i) == recvd[i] < Len(src[i])
\* the value a receive from source i yields
Front(i) == src[i][recvd[i] + 1]
\* a receive from source i yields ok = false
IsClosed(i) == closed[i] /\ recvd[i] = Len(src[i])
\* the receive itself
Recv(i) == recvd' = [recvd EXCEPT ![i] = @ + 1]

\* the consumer takes v from the output (the rendezvous of `outChan <- v`)
Emit(v) ==
    /\ out' = Append(out, v)
    /\ outAt' = Append(outAt, recvd[1])
    /\ late' = IF ctxDone THEN late + 1 ELSE late
    /\ gapOK' = (gapOK /\ (op \notin Timed \/ out = <<>> \/ since >= Interval))
    /\ since' = IF op \in Timed \cup {"Timeout"} THEN 0 ELSE since

\* a send on the output that the goroutine survives
Deliver(v) == Emit(v) /\ UNCHANGED outClosed

\* close(outChan), deferred to the goroutine's return
Close(cause) ==
    /\ pc' = "done"
    /\ outClosed' = TRUE
    /\ exitBy' = cause

\* the goroutine returns without another send
Return(cause) ==
    /\ Close(cause)
    /\ UNCHANGED <<out, outAt, late, gapOK, since>>

\* ticker.Stop() / timer.Stop(): no expiry is delivered afterwards
StopTimer == tleft' = 0 /\ tfired' = FALSE
\* a Reset that leaves an expiry already sent in the timer's channel
ArmTimerStale == tleft' = Interval /\ UNCHANGED tfired

\* time.NewTimer(d) / timer.Reset(d) on a stopped timer (Go 1.23+ timers: a
\* Stop or Reset leaves no stale expiry in the channel)
ArmTimer == tleft' = Interval /\ tfired' = FALSE

\* a recieve that waits for the source alone
recieveNoCtx == FALSE

\* recieve(ctx, in) took its ctx.Done() case, or send(ctx, out, v) did
recieveCtx == ctxDone
sendCtx    == ctxDone

\* ------------------------------------------------------------ environment
\* the caller cancels the context
Cancel ==
    /\ ~ctxDone
    /\ ctxDone' = TRUE
    /\ UNCHANGED <<params, apart, aux, arrive, recvd, closed, pc, locals, timers, workers, draining,
                   out, outClosed, hist, since, exitBy>>

\* the producer of source i closes it after its last send
CloseIn(i) ==
    /\ i \in Sources(op, n)
    /\ ~closed[i]
    /\ recvd[i] = Len(src[i])
    /\ closed' = [closed EXCEPT ![i] = TRUE]
    /\ UNCHANGED <<params, apart, aux, arrive, recvd, ctxDone, pc, locals, timers, workers, draining,
                   out, outClosed, hist, since, exitBy>>

\* ---------------------------------------------------------------- select.go
\* Take: the ctx.Done() cases of recieve and send
TakeCtx ==
    /\ op = "Take"
    /\ \/ pc = "recv" /\ cnt < n /\ recieveCtx
       \/ pc = "send" /\ sendCtx
    /\ Return("ctx")
    /\ UNCHANGED <<params, apart, aux, arrive, recvd, closed, ctxDone, locals, timers, workers, draining, tapped>>

\* Take: `if taken >= count { return }`
TakeFull ==
    /\ op = "Take"
    /\ pc = "recv"
    /\ cnt >= n
    /\ Return("count")
    /\ UNCHANGED <<params, apart, aux, arrive, recvd, closed, ctxDone, locals, timers, workers, draining, tapped>>

\* a Take that receives while taken <= count
TakeRecvMore ==
    /\ op = "Take"
    /\ pc = "recv"
    /\ cnt <= n
    /\ \/ /\ CanRecv(1)
          /\ Recv(1)
          /\ val' = <<Front(1)>>
          /\ pc' = "send"
          /\ UNCHANGED <<out, outClosed, hist, since, exitBy>>
       \/ /\ IsClosed(1)
          /\ Return("closed")
          /\ UNCHANGED <<recvd, val, tapped>>
    /\ UNCHANGED <<params, apart, aux, arrive, closed, ctxDone, cnt, skipping, pending, queue, batch, timers,
                   workers, draining>>

TakeRecv ==
    /\ op = "Take"
    /\ pc = "recv"
    /\ cnt < n
    /\ \/ /\ CanRecv(1)
          /\ Recv(1)
          /\ val' = <<Front(1)>>
          /\ pc' = "send"
          /\ UNCHANGED <<out, outClosed, hist, since, exitBy>>
       \/ /\ IsClosed(1)
          /\ Return("closed")
          /\ UNCHANGED <<recvd, val, tapped>>
    /\ UNCHANGED <<params, apart, aux, arrive, closed, ctxDone, cnt, skipping, pending, queue, batch, timers,
                   workers, draining>>

\* a send that leaves `taken` as it was
TakeSendUncounted ==
    /\ op = "Take"
    /\ pc = "send"
    /\ Deliver(val[1])
    /\ pc' = "recv"
    /\ UNCHANGED <<params, apart, aux, arrive, recvd, closed, ctxDone, locals, timers, workers,
                   draining, tapped, exitBy>>

TakeSend ==
    /\ op = "Take"
    /\ pc = "send"
    /\ Deliver(val[1])
    /\ cnt' = cnt + 1
    /\ pc' = "recv"
    /\ UNCHANGED <<params, apart, aux, arrive, recvd, closed, ctxDone, val, skipping, pending, queue,
                   batch, timers, workers, draining, tapped, exitBy>>

SkipCtx ==
    /\ op = "Skip"
    /\ \/ pc = "recv" /\ recieveCtx
       \/ pc = "send" /\ sendCtx
    /\ Return("ctx")
    /\ UNCHANGED <<params, apart, aux, arrive, recvd, closed, ctxDone, locals, timers, workers, draining, tapped>>

\* a Skip that skips while skipped <= count
SkipRecvMore ==
    /\ op = "Skip"
    /\ pc = "recv"
    /\ \/ /\ CanRecv(1)
          /\ Recv(1)
          /\ IF cnt <= n
             THEN cnt' = cnt + 1 /\ UNCHANGED <<val, pc>>
             ELSE val' = <<Front(1)>> /\ pc' = "send" /\ UNCHANGED cnt
          /\ UNCHANGED <<out, outClosed, hist, since, exitBy>>
       \/ /\ IsClosed(1)
          /\ Return("closed")
          /\ UNCHANGED <<recvd, val, cnt, tapped>>
    /\ UNCHANGED <<params, apart, aux, arrive, closed, ctxDone, skipping, pending, queue, batch, timers,
                   workers, draining>>

SkipRecv ==
    /\ op = "Skip"
    /\ pc = "recv"
    /\ \/ /\ CanRecv(1)
          /\ Recv(1)
          /\ IF cnt < n
             THEN cnt' = cnt + 1 /\ UNCHANGED <<val, pc>>
             ELSE val' = <<Front(1)>> /\ pc' = "send" /\ UNCHANGED cnt
          /\ UNCHANGED <<out, outClosed, hist, since, exitBy>>
       \/ /\ IsClosed(1)
          /\ Return("closed")
          /\ UNCHANGED <<recvd, val, cnt, tapped>>
    /\ UNCHANGED <<params, apart, aux, arrive, closed, ctxDone, skipping, pending, queue, batch, timers,
                   workers, draining>>

SkipSend ==
    /\ op = "Skip"
    /\ pc = "send"
    /\ Deliver(val[1])
    /\ pc' = "recv"
    /\ UNCHANGED <<params, apart, aux, arrive, recvd, closed, ctxDone, locals, timers, workers,
                   draining, tapped, exitBy>>

TakeWhileCtx ==
    /\ op = "TakeWhile"
    /\ \/ pc = "recv" /\ recieveCtx
       \/ pc = "send" /\ sendCtx
    /\ Return("ctx")
    /\ UNCHANGED <<params, apart, aux, arrive, recvd, closed, ctxDone, locals, timers, workers, draining, tapped>>

\* a TakeWhile that drops a failing value and goes on
TakeWhileRecvOn ==
    /\ op = "TakeWhile"
    /\ pc = "recv"
    /\ \/ /\ CanRecv(1)
          /\ Recv(1)
          /\ IF predicate(Front(1))
             THEN /\ val' = <<Front(1)>>
                  /\ pc' = "send"
                  /\ UNCHANGED <<out, outClosed, hist, since, exitBy>>
             ELSE UNCHANGED <<val, pc, out, outClosed, hist, since, exitBy>>
       \/ /\ IsClosed(1)
          /\ Return("closed")
          /\ UNCHANGED <<recvd, val, tapped>>
    /\ UNCHANGED <<params, apart, aux, arrive, closed, ctxDone, cnt, skipping, pending, queue, batch, timers,
                   workers, draining>>

TakeWhileRecv ==
    /\ op = "TakeWhile"
    /\ pc = "recv"
    /\ \/ /\ CanRecv(1)
          /\ Recv(1)
          /\ IF predicate(Front(1))
             THEN /\ val' = <<Front(1)>>
                  /\ pc' = "send"
                  /\ UNCHANGED <<out, outClosed, hist, since, exitBy>>
             ELSE /\ Return("predicate")
                  /\ UNCHANGED <<val, tapped>>
       \/ /\ IsClosed(1)
          /\ Return("closed")
          /\ UNCHANGED <<recvd, val, tapped>>
    /\ UNCHANGED <<params, apart, aux, arrive, closed, ctxDone, cnt, skipping, pending, queue, batch, timers,
                   workers, draining>>

TakeWhileSend ==
    /\ op = "TakeWhile"
    /\ pc = "send"
    /\ Deliver(val[1])
    /\ pc' = "recv"
    /\ UNCHANGED <<params, apart, aux, arrive, recvd, closed, ctxDone, locals, timers, workers,
                   draining, tapped, exitBy>>

SkipWhileCtx ==
    /\ op = "SkipWhile"
    /\ \/ pc = "recv" /\ recieveCtx
       \/ pc = "send" /\ sendCtx
    /\ Return("ctx")
    /\ UNCHANGED <<params, apart, aux, arrive, recvd, closed, ctxDone, locals, timers, workers, draining, tapped>>

\* a SkipWhile that tests every value
SkipWhileRecvAgain ==
    /\ op = "SkipWhile"
    /\ pc = "recv"
    /\ \/ /\ CanRecv(1)
          /\ Recv(1)
          /\ IF predicate(Front(1))
             THEN UNCHANGED <<val, pc, skipping>>
             ELSE val' = <<Front(1)>> /\ pc' = "send" /\ skipping' = FALSE
          /\ tapped' = Append(tapped, Front(1))
          /\ UNCHANGED <<out, outClosed, outAt, late, gapOK, since, exitBy>>
       \/ /\ IsClosed(1)
          /\ Return("closed")
          /\ UNCHANGED <<recvd, val, skipping, tapped>>
    /\ UNCHANGED <<params, apart, aux, arrive, closed, ctxDone, cnt, pending, queue, batch, timers, workers, draining>>

SkipWhileRecv ==
    /\ op = "SkipWhile"
    /\ pc = "recv"
    /\ \/ /\ CanRecv(1)
          /\ Recv(1)
          /\ IF skipping /\ predicate(Front(1))
             THEN UNCHANGED <<val, pc, skipping>>
             ELSE val' = <<Front(1)>> /\ pc' = "send" /\ skipping' = FALSE
          /\ tapped' = IF skipping THEN Append(tapped, Front(1)) ELSE tapped
          /\ UNCHANGED <<out, outClosed, outAt, late, gapOK, since, exitBy>>
       \/ /\ IsClosed(1)
          /\ Return("closed")
          /\ UNCHANGED <<recvd, val, skipping, tapped>>
    /\ UNCHANGED <<params, apart, aux, arrive, closed, ctxDone, cnt, pending, queue, batch, timers, workers, draining>>

SkipWhileSend ==
    /\ op = "SkipWhile"
    /\ pc = "send"
    /\ Deliver(val[1])
    /\ pc' = "recv"
    /\ UNCHANGED <<params, apart, aux, arrive, recvd, closed, ctxDone, locals, timers, workers,
                   draining, tapped, exitBy>>

\* ------------------------------------------------------------------ Tap
TapCtx ==
    /\ op = "Tap"
    /\ \/ pc = "recv" /\ recieveCtx
       \/ pc = "send" /\ sendCtx
    /\ Return("ctx")
    /\ UNCHANGED <<params, apart, aux, arrive, recvd, closed, ctxDone, locals, timers, workers, draining, tapped>>

TapRecv ==
    /\ op = "Tap"
    /\ pc = "recv"
    /\ \/ /\ CanRecv(1)
          /\ Recv(1)
          /\ tapped' = Append(tapped, Front(1))
          /\ val' = <<Front(1)>>
          /\ pc' = "send"
          /\ UNCHANGED <<out, outClosed, outAt, late, gapOK, since, exitBy>>
       \/ /\ IsClosed(1)
          /\ Return("closed")
          /\ UNCHANGED <<recvd, val, tapped>>
    /\ UNCHANGED <<params, apart, aux, arrive, closed, ctxDone, cnt, skipping, pending, queue, batch, timers,
                   workers, draining>>

TapSend ==
    /\ op = "Tap"
    /\ pc = "send"
    /\ Deliver(val[1])
    /\ pc' = "recv"
    /\ UNCHANGED <<params, apart, aux, arrive, recvd, closed, ctxDone, locals, timers, workers,
                   draining, tapped, exitBy>>

\* ----------------------------------------------------------- transformer.go
\* a Map that forwards the value it received
MapRecvRaw ==
    /\ op = "Map"
    /\ pc = "range"
    /\ \/ /\ CanRecv(1)
          /\ Recv(1)
          /\ val' = <<Front(1)>>
          /\ pc' = "send"
          /\ UNCHANGED <<out, outClosed, hist, since, exitBy>>
       \/ /\ IsClosed(1)
          /\ Return("closed")
          /\ UNCHANGED <<recvd, val, tapped>>
    /\ UNCHANGED <<params, apart, aux, arrive, closed, ctxDone, cnt, skipping, pending, queue, batch, timers,
                   workers, draining>>

\* Map: `for val := range in` waits for the source alone
MapRecv ==
    /\ op = "Map"
    /\ pc = "range"
    /\ \/ /\ CanRecv(1)
          /\ Recv(1)
          /\ val' = <<mapFunc(Front(1))>>
          /\ pc' = "send"
          /\ UNCHANGED <<out, outClosed, hist, since, exitBy>>
       \/ /\ IsClosed(1)
          /\ Return("closed")
          /\ UNCHANGED <<recvd, val, tapped>>
    /\ UNCHANGED <<params, apart, aux, arrive, closed, ctxDone, cnt, skipping, pending, queue, batch, timers,
                   workers, draining>>

MapCtx ==
    /\ op = "Map"
    /\ pc = "send"
    /\ ctxDone
    /\ Return("ctx")
    /\ UNCHANGED <<params, apart, aux, arrive, recvd, closed, ctxDone, locals, timers, workers, draining, tapped>>

MapSend ==
    /\ op = "Map"
    /\ pc = "send"
    /\ Deliver(val[1])
    /\ pc' = "range"
    /\ UNCHANGED <<params, apart, aux, arrive, recvd, closed, ctxDone, locals, timers, workers,
                   draining, tapped, exitBy>>

\* Filter: `for val := range in`, then `select { case <-ctx.Done(): return; default: ... }`
FilterRecv ==
    /\ op = "Filter"
    /\ pc = "range"
    /\ \/ /\ CanRecv(1)
          /\ Recv(1)
          /\ IF ctxDone
             THEN /\ Return("ctx")
                  /\ UNCHANGED <<val, tapped>>
             ELSE /\ IF filterFunc(Front(1))
                     THEN val' = <<Front(1)>> /\ pc' = "send"
                     ELSE UNCHANGED <<val, pc>>
                  /\ UNCHANGED <<out, outClosed, hist, since, exitBy>>
       \/ /\ IsClosed(1)
          /\ Return("closed")
          /\ UNCHANGED <<recvd, val, tapped>>
    /\ UNCHANGED <<params, apart, aux, arrive, closed, ctxDone, cnt, skipping, pending, queue, batch, timers,
                   workers, draining>>

FilterCtx ==
    /\ op = "Filter"
    /\ pc = "send"
    /\ ctxDone
    /\ Return("ctx")
    /\ UNCHANGED <<params, apart, aux, arrive, recvd, closed, ctxDone, locals, timers, workers, draining, tapped>>

FilterSend ==
    /\ op = "Filter"
    /\ pc = "send"
    /\ Deliver(val[1])
    /\ pc' = "range"
    /\ UNCHANGED <<params, apart, aux, arrive, recvd, closed, ctxDone, locals, timers, workers,
                   draining, tapped, exitBy>>

\* --------------------------------------------------------------- combine.go
\* Zip: three selects, each with a ctx.Done() case
ZipCtx ==
    /\ op = "Zip"
    /\ pc \in {"recv", "recv2", "send"}
    /\ ctxDone
    /\ Return("ctx")
    /\ UNCHANGED <<params, apart, aux, arrive, recvd, closed, ctxDone, locals, timers, workers, draining, tapped>>

\* a Zip that pairs a value of the first source with the zero value when the
\* second source is closed
ZipRecvPartial ==
    /\ op = "Zip"
    /\ \/ /\ pc = "recv"
          /\ \/ /\ CanRecv(1)
                /\ Recv(1)
                /\ val' = <<Front(1)>>
                /\ pc' = "recv2"
                /\ UNCHANGED <<out, outClosed, hist, since, exitBy>>
             \/ /\ IsClosed(1)
                /\ Return("closed")
                /\ UNCHANGED <<recvd, val, tapped>>
       \/ /\ pc = "recv2"
          /\ \/ /\ CanRecv(2)
                /\ Recv(2)
                /\ val' = Append(val, Front(2))
                /\ pc' = "send"
                /\ UNCHANGED <<out, outClosed, hist, since, exitBy>>
             \/ /\ IsClosed(2)
                /\ val' = Append(val, 0)
                /\ pc' = "send"
                /\ UNCHANGED <<recvd, out, outClosed, hist, since, exitBy>>
    /\ UNCHANGED <<params, apart, aux, arrive, closed, ctxDone, cnt, skipping, pending, queue, batch, timers,
                   workers, draining>>

\* a Zip that looks at the second source before it receives from the first
ZipRecvPeek ==
    /\ op = "Zip"
    /\ \/ /\ pc = "recv"
          /\ \/ /\ CanRecv(1)
                /\ ~IsClosed(2)
                /\ Recv(1)
                /\ val' = <<Front(1)>>
                /\ pc' = "recv2"
                /\ UNCHANGED <<out, outClosed, hist, since, exitBy>>
             \/ /\ IsClosed(1)
                /\ Return("closed")
                /\ UNCHANGED <<recvd, val, tapped>>
             \/ /\ IsClosed(2)
                /\ Return("closed2")
                /\ UNCHANGED <<recvd, val, tapped>>
       \/ /\ pc = "recv2"
          /\ \/ /\ CanRecv(2)
                /\ Recv(2)
                /\ val' = Append(val, Front(2))
                /\ pc' = "send"
                /\ UNCHANGED <<out, outClosed, hist, since, exitBy>>
             \/ /\ IsClosed(2)
                /\ Return("closed2")
                /\ UNCHANGED <<recvd, val, tapped>>
    /\ UNCHANGED <<params, apart, aux, arrive, closed, ctxDone, cnt, skipping, pending, queue, batch, timers,
                   workers, draining>>

ZipRecv ==
    /\ op = "Zip"
    /\ \/ /\ pc = "recv"
          /\ \/ /\ CanRecv(1)
                /\ Recv(1)
                /\ val' = <<Front(1)>>
                /\ pc' = "recv2"
                /\ UNCHANGED <<out, outClosed, hist, since, exitBy>>
             \/ /\ IsClosed(1)
                /\ Return("closed")
                /\ UNCHANGED <<recvd, val, tapped>>
       \/ /\ pc = "recv2"
          /\ \/ /\ CanRecv(2)
                /\ Recv(2)
                /\ val' = Append(val, Front(2))
                /\ pc' = "send"
                /\ UNCHANGED <<out, outClosed, hist, since, exitBy>>
             \/ /\ IsClosed(2)
                /\ Return("closed2")
                /\ UNCHANGED <<recvd, val, tapped>>
    /\ UNCHANGED <<params, apart, aux, arrive, closed, ctxDone, cnt, skipping, pending, queue, batch, timers,
                   workers, draining>>

ZipSend ==
    /\ op = "Zip"
    /\ pc = "send"
    /\ Deliver(val)
    /\ pc' = "recv"
    /\ UNCHANGED <<params, apart, aux, arrive, recvd, closed, ctxDone, locals, timers, workers,
                   draining, tapped, exitBy>>

\* Merge: goroutine j runs `for val := range ch { select { ctx.Done / outChan <- val } }`
MergeRecv(j) ==
    /\ op = "Merge"
    /\ j \in DOMAIN wpc
    /\ wpc[j] = "range"
    /\ \/ /\ CanRecv(j)
          /\ Recv(j)
          /\ wval' = [wval EXCEPT ![j] = <<Front(j)>>]
          /\ wpc' = [wpc EXCEPT ![j] = "send"]
       \/ /\ IsClosed(j)
          /\ wpc' = [wpc EXCEPT ![j] = "done"]
          /\ UNCHANGED <<recvd, wval>>
    /\ UNCHANGED <<params, apart, aux, arrive, closed, ctxDone, pc, locals, timers, wrecvd, draining,
                   out, outClosed, hist, since, exitBy>>

MergeCtx(j) ==
    /\ op = "Merge"
    /\ j \in DOMAIN wpc
    /\ wpc[j] = "send"
    /\ ctxDone
    /\ wpc' = [wpc EXCEPT ![j] = "done"]
    /\ UNCHANGED <<params, apart, aux, arrive, recvd, closed, ctxDone, pc, locals, timers, wval, wrecvd,
                   draining, out, outClosed, hist, since, exitBy>>

MergeSend(j) ==
    /\ op = "Merge"
    /\ j \in DOMAIN wpc
    /\ wpc[j] = "send"
    /\ Deliver(wval[j][1])
    /\ wpc' = [wpc EXCEPT ![j] = "range"]
    /\ UNCHANGED <<params, apart, aux, arrive, recvd, closed, ctxDone, pc, locals, timers, wval, wrecvd,
                   draining, tapped, exitBy>>

\* a Merge that closes its output when the first forwarder is done
MergeCloseEarly ==
    /\ op = "Merge"
    /\ pc = "wait"
    /\ \E j \in DOMAIN wpc : wpc[j] = "done"
    /\ Return("wg")
    /\ UNCHANGED <<params, apart, aux, arrive, recvd, closed, ctxDone, locals, timers, workers, draining, tapped>>

\* Merge: `wg.Wait(); close(outChan)`
MergeClose ==
    /\ op = "Merge"
    /\ pc = "wait"
    /\ \A j \in DOMAIN wpc : wpc[j] = "done"
    /\ Return("wg")
    /\ UNCHANGED <<params, apart, aux, arrive, recvd, closed, ctxDone, locals, timers, workers, draining, tapped>>

\* ---------------------------------------------------- FlatMap, helpers.go
\* the inner channel forwarder j reads: flatMapFunc of the j-th input value
InnerOf(j) == flatMapFunc(src[1][j])

\* drain(in): `for range in {}` on the channel c it was started for
drain(c) ==
    /\ c \in draining
    /\ IF c[1] = "in"
       THEN /\ CanRecv(c[2])
            /\ Recv(c[2])
            /\ UNCHANGED wrecvd
       ELSE /\ wrecvd[c[2]] < Len(InnerOf(c[2]))
            /\ wrecvd' = [wrecvd EXCEPT ![c[2]] = @ + 1]
            /\ UNCHANGED recvd
    /\ UNCHANGED <<params, apart, aux, arrive, closed, ctxDone, pc, locals, timers, wpc, wval, draining,
                   out, outClosed, hist, since, exitBy>>

\* FlatMap's main goroutine: recieve's ctx.Done() case, then the deferred wg.Wait()
FlatMapCtx ==
    /\ op = "FlatMap"
    /\ pc = "recv"
    /\ recieveCtx
    /\ pc' = "wait"
    /\ exitBy' = "ctx"
    /\ UNCHANGED <<params, apart, aux, arrive, recvd, closed, ctxDone, locals, timers, workers, draining,
                   out, outClosed, hist, since>>

\* one more forwarder goroutine per value received
FlatMapRecv ==
    /\ op = "FlatMap"
    /\ pc = "recv"
    /\ \/ /\ CanRecv(1)
          /\ Recv(1)
          /\ wpc' = Append(wpc, "recv")
          /\ wval' = Append(wval, <<>>)
          /\ wrecvd' = Append(wrecvd, 0)
          /\ UNCHANGED <<pc, exitBy>>
       \/ /\ IsClosed(1)
          /\ pc' = "wait"
          /\ exitBy' = "closed"
          /\ UNCHANGED <<recvd, workers>>
    /\ UNCHANGED <<params, apart, aux, arrive, closed, ctxDone, locals, timers, draining, out, outClosed,
                   hist, since>>

\* a close that does not wait for the forwarders
FlatMapCloseEarly ==
    /\ op = "FlatMap"
    /\ pc = "wait"
    /\ Return(exitBy)
    /\ UNCHANGED <<params, apart, aux, arrive, recvd, closed, ctxDone, locals, timers, workers, draining, tapped>>

\* `wg.Wait(); close(outChan)`
FlatMapClose ==
    /\ op = "FlatMap"
    /\ pc = "wait"
    /\ \A j \in DOMAIN wpc : wpc[j] = "done"
    /\ Return(exitBy)
    /\ UNCHANGED <<params, apart, aux, arrive, recvd, closed, ctxDone, locals, timers, workers, draining, tapped>>

\* forwardSimple(ctx, outChan, innerChan): both ctx.Done() cases start a drain
forwardSimpleCtx(j) ==
    /\ op = "FlatMap"
    /\ j \in DOMAIN wpc
    /\ wpc[j] \in {"recv", "send"}
    /\ ctxDone
    /\ draining' = draining \cup {<<"inner", j>>}
    /\ wpc' = [wpc EXCEPT ![j] = "done"]
    /\ UNCHANGED <<params, apart, aux, arrive, recvd, closed, ctxDone, pc, locals, timers, wval, wrecvd,
                   out, outClosed, hist, since, exitBy>>

forwardSimpleRecv(j) ==
    /\ op = "FlatMap"
    /\ j \in DOMAIN wpc
    /\ wpc[j] = "recv"
    /\ IF wrecvd[j] < Len(InnerOf(j))
       THEN /\ wval' = [wval EXCEPT ![j] = <<InnerOf(j)[wrecvd[j] + 1]>>]
            /\ wrecvd' = [wrecvd EXCEPT ![j] = @ + 1]
            /\ wpc' = [wpc EXCEPT ![j] = "send"]
       ELSE /\ wpc' = [wpc EXCEPT ![j] = "done"]
            /\ UNCHANGED <<wval, wrecvd>>
    /\ UNCHANGED <<params, apart, aux, arrive, recvd, closed, ctxDone, pc, locals, timers, draining,
                   out, outClosed, hist, since, exitBy>>

forwardSimpleSend(j) ==
    /\ op = "FlatMap"
    /\ j \in DOMAIN wpc
    /\ wpc[j] = "send"
    /\ Deliver(wval[j][1])
    /\ wpc' = [wpc EXCEPT ![j] = "recv"]
    /\ UNCHANGED <<params, apart, aux, arrive, recvd, closed, ctxDone, pc, locals, timers, wval, wrecvd,
                   draining, tapped, exitBy>>

\* --------------------------------------------------------------- generators
RepeatCtx ==
    /\ op = "Repeat"
    /\ pc = "send"
    /\ sendCtx
    /\ Return("ctx")
    /\ UNCHANGED <<params, apart, aux, arrive, recvd, closed, ctxDone, locals, timers, workers, draining, tapped>>

RepeatSend ==
    /\ op = "Repeat"
    /\ pc = "send"
    /\ Len(out) < MaxOut
    /\ Deliver(RepeatValue)
    /\ UNCHANGED <<params, apart, aux, arrive, recvd, closed, ctxDone, pc, locals, timers, workers,
                   draining, tapped, exitBy>>

\* ------------------------------------------- terminals: transformer.go, gen.go
Terminals == {"Reduce", "Count", "First", "Last", "Any", "All"}

\* the initial values Reduce is called with
Initials == {0, 4}

\* the reduceFunc of the tests that joins its arguments (strings there, decimal
\* digits here), so that the order of the fold shows in the result
reduceFunc(acc, x) == acc * 10 + x

\* what a terminal returns when its receive yields no value (ctx.Done() or a
\* closed channel; the zero value is 0)
Partial ==
    IF op \in {"Reduce", "Count"} THEN <<accumulator>>
    ELSE IF op = "First" THEN <<0, FALSE>>
    ELSE IF op = "Last" THEN <<accumulator, found>>
    ELSE IF op = "Any" THEN <<FALSE>>
    ELSE <<TRUE>>

\* the terminal returns r
Returns(r, cause) ==
    /\ ret' = r
    /\ pc' = "done"
    /\ exitBy' = cause

\* the ctx.Done() case of Reduce's select and of recieve
TerminalCtx ==
    /\ op \in Terminals
    /\ pc = "recv"
    /\ recieveCtx
    /\ Returns(Partial, "ctx")
    /\ UNCHANGED <<recvd, accumulator, found, params, gen, conf, aux, arrive, closed, ctxDone, locals, timers, workers,
                   draining, out, outClosed, hist, since>>

\* the receive yields ok = false
TerminalClosed ==
    /\ op \in Terminals
    /\ pc = "recv"
    /\ IsClosed(1)
    /\ Returns(Partial, "closed")
    /\ UNCHANGED <<recvd, accumulator, found, params, gen, conf, aux, arrive, closed, ctxDone, locals, timers, workers,
                   draining, out, outClosed, hist, since>>

\* a Reduce that calls reduceFunc with its arguments exchanged
ReduceRecvSwapped ==
    /\ op = "Reduce"
    /\ pc = "recv"
    /\ CanRecv(1)
    /\ Recv(1)
    /\ accumulator' = reduceFunc(Front(1), accumulator)
    /\ UNCHANGED <<found, pc, ret, exitBy>>
    /\ UNCHANGED <<params, gen, conf, aux, arrive, closed, ctxDone, locals, timers, workers,
                   draining, out, outClosed, hist, since>>

\* `accumulator = reduceFunc(accumulator, val)`
ReduceRecv ==
    /\ op = "Reduce"
    /\ pc = "recv"
    /\ CanRecv(1)
    /\ Recv(1)
    /\ accumulator' = reduceFunc(accumulator, Front(1))
    /\ UNCHANGED <<found, pc, ret, exitBy>>
    /\ UNCHANGED <<params, gen, conf, aux, arrive, closed, ctxDone, locals, timers, workers,
                   draining, out, outClosed, hist, since>>

\* `count++`
CountRecv ==
    /\ op = "Count"
    /\ pc = "recv"
    /\ CanRecv(1)
    /\ Recv(1)
    /\ accumulator' = accumulator + 1
    /\ UNCHANGED <<found, pc, ret, exitBy>>
    /\ UNCHANGED <<params, gen, conf, aux, arrive, closed, ctxDone, locals, timers, workers,
                   draining, out, outClosed, hist, since>>

\* `return recieve(p.ctx, p.ch)`
FirstRecv ==
    /\ op = "First"
    /\ pc = "recv"
    /\ CanRecv(1)
    /\ Recv(1)
    /\ Returns(<<Front(1), TRUE>>, "value")
    /\ UNCHANGED <<accumulator, found>>
    /\ UNCHANGED <<params, gen, conf, aux, arrive, closed, ctxDone, locals, timers, workers,
                   draining, out, outClosed, hist, since>>

\* `last = val; found = true`
LastRecv ==
    /\ op = "Last"
    /\ pc = "recv"
    /\ CanRecv(1)
    /\ Recv(1)
    /\ accumulator' = Front(1)
    /\ found' = TRUE
    /\ UNCHANGED <<pc, ret, exitBy>>
    /\ UNCHANGED <<params, gen, conf, aux, arrive, closed, ctxDone, locals, timers, workers,
                   draining, out, outClosed, hist, since>>

\* `if fn(val) { return true }`
AnyRecv ==
    /\ op = "Any"
    /\ pc = "recv"
    /\ CanRecv(1)
    /\ Recv(1)
    /\ IF predicate(Front(1)) THEN Returns(<<TRUE>>, "value") ELSE UNCHANGED <<pc, ret, exitBy>>
    /\ UNCHANGED <<accumulator, found>>
    /\ UNCHANGED <<params, gen, conf, aux, arrive, closed, ctxDone, locals, timers, workers,
                   draining, out, outClosed, hist, since>>

\* `if !fn(val) { return false }`
AllRecv ==
    /\ op = "All"
    /\ pc = "recv"
    /\ CanRecv(1)
    /\ Recv(1)
    /\ IF ~predicate(Front(1)) THEN Returns(<<FALSE>>, "value") ELSE UNCHANGED <<pc, ret, exitBy>>
    /\ UNCHANGED <<accumulator, found>>
    /\ UNCHANGED <<params, gen, conf, aux, arrive, closed, ctxDone, locals, timers, workers,
                   draining, out, outClosed, hist, since>>

\* --------------------------------------------------- helpers.go, gen.go: options
\* WithBuffer(size) and WithBufferAuto(), by what they store in cfg.bufferSize
WithBuffer(size) == [name |-> "WithBuffer", bufferSize |-> size]
WithBufferAuto   == [name |-> "WithBufferAuto", bufferSize |-> 0 - 1]

\* the options a caller passes
Options == {WithBuffer(size) : size \in 0..MaxLen} \cup {WithBufferAuto}

RECURSIVE OptionLists(_)
OptionLists(k) ==
    IF k = 0 THEN {<<>>}
    ELSE LET shorter == OptionLists(k - 1)
         IN  shorter \cup {Append(os, o) : os \in {t \in shorter : Len(t) = k - 1}, o \in Options}

\* `for _, opt := range opts { opt(cfg) }` on a cfg whose bufferSize is size
RECURSIVE configure(_, _)
configure(os, size) ==
    IF os = <<>> THEN size ELSE configure(Tail(os), Head(os).bufferSize)

\* make(chan T, size) panics on a negative size
makeChan(size) == IF size < 0 THEN "panic" ELSE "ok"

\* the functions that make their channel with applyChanOptions(opts...)
Configured == OneInput \cup {"Repeat", "Range"}

\* applyChanOptions(opts...), as every operator and generator but SliceToChan calls it
applyChanOptions ==
    /\ op \in Configured
    /\ made = "no"
    /\ bufferSize' = configure(opts, 0)
    /\ made' = makeChan(bufferSize')
    /\ UNCHANGED <<params, gen, opts, term, aux, arrive, recvd, closed, ctxDone, pc, locals, timers,
                   workers, draining, out, outClosed, hist, since, exitBy>>

\* SliceToChan: the sentinel -1 is replaced by WithBuffer(len(slice)) before
\* applyChanOptions(opts...)
SliceToChan ==
    /\ op = "SliceToChan"
    /\ made = "no"
    /\ opts' = (IF configure(opts, 0) = 0 - 1 THEN <<WithBuffer(Len(src[1]))>> ELSE opts)
    /\ bufferSize' = configure(opts', 0)
    /\ made' = makeChan(bufferSize')
    /\ UNCHANGED <<params, gen, term, aux, arrive, recvd, closed, ctxDone, pc, locals, timers,
                   workers, draining, out, outClosed, hist, since, exitBy>>

\* the values of Range's type T: an unsigned or a two's complement integer
\* of Bits bits
TypeOf(sg) ==
    IF sg THEN (0 - 2 ^ (Bits - 1))..(2 ^ (Bits - 1) - 1) ELSE 0..(2 ^ Bits - 1)

\* the value of type T an arithmetic result x is stored as (Go integers wrap around)
Wrap(sg, x) ==
    IF sg THEN ((x + 2 ^ (Bits - 1)) % (2 ^ Bits)) - 2 ^ (Bits - 1) ELSE x % (2 ^ Bits)

\* most values Range is followed for: one more than a type of Bits bits has
MaxRange == 2 ^ Bits + 1

\* the loop conditions: `step > 0` with `i < end`, `step < 0` with `i > end`
RangeContinues == (step > 0 /\ idx < end) \/ (step < 0 /\ idx > end)

\* Range: send(ctx, ch, i) took its ctx.Done() case
RangeCtx ==
    /\ op = "Range"
    /\ pc = "loop"
    /\ RangeContinues
    /\ sendCtx
    /\ Return("ctx")
    /\ UNCHANGED <<params, apart, aux, arrive, recvd, closed, ctxDone, locals, timers, workers,
                   draining, tapped>>

\* Range: send(ctx, ch, i) delivered i, then `i += step`
RangeSend ==
    /\ op = "Range"
    /\ pc = "loop"
    /\ RangeContinues
    /\ Len(out) < MaxRange
    /\ Deliver(idx)
    /\ idx' = Wrap(signed, idx + step)
    /\ UNCHANGED <<params, signed, start, end, step, conf, term, aux, arrive, recvd, closed,
                   ctxDone, pc, locals, timers, workers, draining, tapped, exitBy>>

\* Range: the loop condition fails, or step is 0
RangeEnd ==
    /\ op = "Range"
    /\ pc = "loop"
    /\ ~RangeContinues
    /\ Return("end")
    /\ UNCHANGED <<params, apart, aux, arrive, recvd, closed, ctxDone, locals, timers, workers,
                   draining, tapped>>

\* ------------------------------------------------------------------ flow.go
\* one clock unit passes; a ticker re-arms itself, a timer fires once; the
\* channel keeps at most one expiry
Tick ==
    /\ op \in Timed \cup Timing
    /\ pc # "done"
    /\ since' = IF since < Interval THEN since + 1 ELSE since
    /\ IF tleft = 0 THEN UNCHANGED <<tleft, tfired>>
       ELSE IF tleft > 1 THEN tleft' = tleft - 1 /\ UNCHANGED tfired
       ELSE /\ tfired' = TRUE
            /\ tleft' = IF op \in {"Throttle", "FixedInterval"} THEN Interval ELSE 0
    /\ waited' = IF waited < Interval THEN waited + 1 ELSE waited
    /\ wtleft' = [j \in DOMAIN wtleft |-> IF wtleft[j] > 0 THEN wtleft[j] - 1 ELSE 0]
    /\ UNCHANGED <<params, apart, elapsed, burstEnd, recvd, closed, ctxDone, pc, locals, timerCh, workers,
                   draining, out, outClosed, hist, exitBy>>

ThrottleCtx ==
    /\ op = "Throttle"
    /\ pc \in {"select", "send"}
    /\ ctxDone
    /\ Return("ctx")
    /\ StopTimer
    /\ UNCHANGED <<params, apart, aux, arrive, recvd, closed, ctxDone, locals, timerCh, workers, draining, tapped>>

\* a Throttle that flushes its pending value when the source closes
ThrottleRecvFlush ==
    /\ op = "Throttle"
    /\ pc = "select"
    /\ \/ /\ CanRecv(1)
          /\ Recv(1)
          /\ pending' = <<Front(1)>>
          /\ waited' = 0
          /\ UNCHANGED <<pc, timers, out, outClosed, hist, since, exitBy>>
       \/ /\ IsClosed(1)
          /\ IF pending # <<>>
             THEN Emit(pending[1]) /\ Close("closed")
             ELSE Return("closed")
          /\ StopTimer
          /\ UNCHANGED <<recvd, pending, timerCh, tapped, waited>>
    /\ UNCHANGED <<params, apart, aux, burstEnd, closed, ctxDone, val, cnt, skipping, queue, batch, workers, draining>>

ThrottleRecv ==
    /\ op = "Throttle"
    /\ pc = "select"
    /\ \/ /\ CanRecv(1)
          /\ Recv(1)
          /\ pending' = <<Front(1)>>
          /\ waited' = 0
          /\ UNCHANGED <<pc, timers, out, outClosed, hist, since, exitBy>>
       \/ /\ IsClosed(1)
          /\ Return("closed")
          /\ StopTimer
          /\ UNCHANGED <<recvd, pending, timerCh, tapped, waited>>
    /\ UNCHANGED <<params, apart, aux, burstEnd, closed, ctxDone, val, cnt, skipping, queue, batch, workers, draining>>

\* `case <-ticker.C: if pending != nil { select ... }`
ThrottleTimer ==
    /\ op = "Throttle"
    /\ pc = "select"
    /\ tfired
    /\ tfired' = FALSE
    /\ pc' = IF pending # <<>> THEN "send" ELSE "select"
    /\ UNCHANGED <<params, apart, aux, arrive, recvd, closed, ctxDone, locals, tleft, timerCh, workers,
                   draining, out, outClosed, hist, since, exitBy>>

\* a Throttle that keeps its pending value after emitting it
ThrottleSendKeep ==
    /\ op = "Throttle"
    /\ pc = "send"
    /\ Deliver(pending[1])
    /\ pc' = "select"
    /\ UNCHANGED <<params, apart, aux, arrive, recvd, closed, ctxDone, locals, timers, workers, draining,
                   tapped, exitBy>>

ThrottleSend ==
    /\ op = "Throttle"
    /\ pc = "send"
    /\ Deliver(pending[1])
    /\ pending' = <<>>
    /\ pc' = "select"
    /\ UNCHANGED <<params, apart, aux, arrive, recvd, closed, ctxDone, val, cnt, skipping, queue, batch,
                   timers, workers, draining, tapped, exitBy>>

\* a FixedInterval whose loop over the queue has no ctx.Done() case
FixedIntervalCtxMainOnly ==
    /\ op = "FixedInterval"
    /\ pc \in {"select", "send"}
    /\ ctxDone
    /\ Return(IF pc \in {"drain", "drainSend"} THEN "ctxDrain" ELSE "ctx")
    /\ StopTimer
    /\ UNCHANGED <<params, apart, aux, arrive, recvd, closed, ctxDone, locals, timerCh, workers, draining, tapped>>

FixedIntervalCtx ==
    /\ op = "FixedInterval"
    /\ pc \in {"select", "send", "drain", "drainSend"}
    /\ ctxDone
    /\ Return(IF pc \in {"drain", "drainSend"} THEN "ctxDrain" ELSE "ctx")
    /\ StopTimer
    /\ UNCHANGED <<params, apart, aux, arrive, recvd, closed, ctxDone, locals, timerCh, workers, draining, tapped>>

\* a FixedInterval that returns as soon as the source is closed
FixedIntervalRecvTruncate ==
    /\ op = "FixedInterval"
    /\ pc = "select"
    /\ \/ /\ CanRecv(1)
          /\ Recv(1)
          /\ queue' = Append(queue, Front(1))
          /\ UNCHANGED <<pc, timers, out, outClosed, hist, since, exitBy>>
       \/ /\ IsClosed(1)
          /\ Return("closed")
          /\ StopTimer
          /\ UNCHANGED <<timerCh, tapped>>
          /\ UNCHANGED <<recvd, queue>>
    /\ UNCHANGED <<params, apart, aux, arrive, closed, ctxDone, val, cnt, skipping, pending, batch, workers, draining>>

FixedIntervalRecv ==
    /\ op = "FixedInterval"
    /\ pc = "select"
    /\ \/ /\ CanRecv(1)
          /\ Recv(1)
          /\ queue' = Append(queue, Front(1))
          /\ UNCHANGED <<pc, timers, out, outClosed, hist, since, exitBy>>
       \/ /\ IsClosed(1)
          /\ IF queue # <<>>
             THEN /\ pc' = "drain"
                  /\ UNCHANGED <<timers, out, outClosed, hist, since, exitBy>>
             ELSE /\ Return("closed")
                  /\ StopTimer
                  /\ UNCHANGED <<timerCh, tapped>>
          /\ UNCHANGED <<recvd, queue>>
    /\ UNCHANGED <<params, apart, aux, arrive, closed, ctxDone, val, cnt, skipping, pending, batch, workers, draining>>

\* `case <-ticker.C:` of the main select and of the loop that empties the queue
FixedIntervalTimer ==
    /\ op = "FixedInterval"
    /\ tfired
    /\ tfired' = FALSE
    /\ \/ pc = "select" /\ pc' = (IF queue # <<>> THEN "send" ELSE "select")
       \/ pc = "drain" /\ pc' = "drainSend"
    /\ UNCHANGED <<params, apart, aux, arrive, recvd, closed, ctxDone, locals, tleft, timerCh, workers,
                   draining, out, outClosed, hist, since, exitBy>>

FixedIntervalSend ==
    /\ op = "FixedInterval"
    /\ pc \in {"send", "drainSend"}
    /\ queue' = Tail(queue)
    /\ \/ /\ pc = "send"
          /\ Deliver(queue[1])
          /\ pc' = "select"
          /\ UNCHANGED <<timers, exitBy>>
       \/ /\ pc = "drainSend"
          /\ IF Len(queue) > 1
             THEN Deliver(queue[1]) /\ pc' = "drain" /\ UNCHANGED <<timers, exitBy>>
             ELSE Emit(queue[1]) /\ Close("drained") /\ StopTimer /\ UNCHANGED timerCh
    /\ UNCHANGED <<params, apart, aux, arrive, recvd, closed, ctxDone, val, cnt, skipping, pending, batch,
                   workers, draining, tapped>>

\* a Batch that returns on the cancellation without sending its accumulator
BatchCtxDrop ==
    /\ op = "Batch"
    /\ pc \in {"select", "sendFull"}
    /\ ctxDone
    /\ Return("ctx")
    /\ StopTimer
    /\ timerCh' = FALSE
    /\ UNCHANGED <<params, apart, aux, arrive, recvd, closed, ctxDone, locals, workers, draining, tapped>>

\* Batch: sendBatch() is `outChan <- batch` with no ctx.Done() case
BatchCtx ==
    /\ op = "Batch"
    /\ pc \in {"select", "sendFull"}
    /\ ctxDone
    /\ IF batch # <<>>
       THEN /\ pc' = "sendBatchReturn"
            /\ exitBy' = "ctx"
            /\ UNCHANGED <<timers, out, outClosed, outAt, late, gapOK, since>>
       ELSE /\ Return("ctx")
            /\ StopTimer
            /\ timerCh' = FALSE
    /\ UNCHANGED <<params, apart, aux, arrive, recvd, closed, ctxDone, locals, workers, draining, tapped>>

\* a Batch that emits on size one value late
BatchRecvOver ==
    /\ op = "Batch"
    /\ pc = "select"
    /\ \/ /\ CanRecv(1)
          /\ Recv(1)
          /\ IF batch = <<>>
             THEN ArmTimer /\ timerCh' = TRUE /\ waited' = 0
             ELSE UNCHANGED <<timers, waited>>
          /\ batch' = Append(batch, Front(1))
          /\ pc' = IF Len(batch') > n THEN "sendFull" ELSE "select"
          /\ UNCHANGED <<out, outClosed, hist, since, exitBy>>
       \/ /\ IsClosed(1)
          /\ IF batch # <<>>
             THEN /\ pc' = "sendBatchReturn"
                  /\ exitBy' = "closed"
                  /\ UNCHANGED <<timers, out, outClosed, hist, since>>
             ELSE /\ Return("closed")
                  /\ StopTimer
                  /\ timerCh' = FALSE
                  /\ UNCHANGED tapped
          /\ UNCHANGED <<recvd, batch, waited>>
    /\ UNCHANGED <<params, apart, aux, burstEnd, closed, ctxDone, val, cnt, skipping, pending, queue, workers, draining>>

BatchRecv ==
    /\ op = "Batch"
    /\ pc = "select"
    /\ \/ /\ CanRecv(1)
          /\ Recv(1)
          /\ IF batch = <<>>
             THEN ArmTimer /\ timerCh' = TRUE /\ waited' = 0
             ELSE UNCHANGED <<timers, waited>>
          /\ batch' = Append(batch, Front(1))
          /\ pc' = IF Len(batch') >= n THEN "sendFull" ELSE "select"
          /\ UNCHANGED <<out, outClosed, hist, since, exitBy>>
       \/ /\ IsClosed(1)
          /\ IF batch # <<>>
             THEN /\ pc' = "sendBatchReturn"
                  /\ exitBy' = "closed"
                  /\ UNCHANGED <<timers, out, outClosed, hist, since>>
             ELSE /\ Return("closed")
                  /\ StopTimer
                  /\ timerCh' = FALSE
                  /\ UNCHANGED tapped
          /\ UNCHANGED <<recvd, batch, waited>>
    /\ UNCHANGED <<params, apart, aux, burstEnd, closed, ctxDone, val, cnt, skipping, pending, queue, workers, draining>>

\* a Batch whose timer case does not wait for the expiry
BatchTimerEager ==
    /\ op = "Batch"
    /\ pc = "select"
    /\ timerCh
    /\ IF batch # <<>>
       THEN pc' = "sendBatch" /\ tfired' = FALSE /\ elapsed' = TRUE /\ UNCHANGED <<tleft, timerCh>>
       ELSE StopTimer /\ timerCh' = FALSE /\ UNCHANGED <<pc, elapsed>>
    /\ UNCHANGED <<params, apart, wtleft, arrive, recvd, closed, ctxDone, locals, workers, draining, out,
                   outClosed, hist, since, exitBy>>

\* `case <-timerCh: sendBatch()`
BatchTimer ==
    /\ op = "Batch"
    /\ pc = "select"
    /\ timerCh
    /\ tfired
    /\ IF batch # <<>>
       THEN pc' = "sendBatch" /\ tfired' = FALSE /\ elapsed' = TRUE /\ UNCHANGED <<tleft, timerCh>>
       ELSE StopTimer /\ timerCh' = FALSE /\ UNCHANGED <<pc, elapsed>>
    /\ UNCHANGED <<params, apart, wtleft, arrive, recvd, closed, ctxDone, locals, workers, draining, out,
                   outClosed, hist, since, exitBy>>

\* a Batch that keeps its accumulator after emitting it
BatchSendKeep ==
    /\ op = "Batch"
    /\ pc \in {"sendFull", "sendBatch", "sendBatchReturn"}
    /\ batch' = batch
    /\ StopTimer
    /\ timerCh' = FALSE
    /\ \/ /\ pc \in {"sendFull", "sendBatch"}
          /\ Deliver(batch)
          /\ pc' = "select"
          /\ UNCHANGED exitBy
       \/ /\ pc = "sendBatchReturn"
          /\ Emit(batch)
          /\ Close(exitBy)
    /\ UNCHANGED <<params, apart, aux, arrive, recvd, closed, ctxDone, val, cnt, skipping, pending, queue,
                   workers, draining, tapped>>

\* `outChan <- batch; batch = nil; timer.Stop(); timerCh = nil`
BatchSend ==
    /\ op = "Batch"
    /\ pc \in {"sendFull", "sendBatch", "sendBatchReturn"}
    /\ batch' = <<>>
    /\ StopTimer
    /\ timerCh' = FALSE
    /\ \/ /\ pc \in {"sendFull", "sendBatch"}
          /\ Deliver(batch)
          /\ pc' = "select"
          /\ UNCHANGED exitBy
       \/ /\ pc = "sendBatchReturn"
          /\ Emit(batch)
          /\ Close(exitBy)
    /\ UNCHANGED <<params, apart, aux, arrive, recvd, closed, ctxDone, val, cnt, skipping, pending, queue,
                   workers, draining, tapped>>

DebounceCtx ==
    /\ op = "Debounce"
    /\ pc \in {"select", "send", "flush"}
    /\ ctxDone
    /\ Return("ctx")
    /\ StopTimer
    /\ UNCHANGED <<params, apart, aux, arrive, recvd, closed, ctxDone, locals, timerCh, workers, draining, tapped>>

\* a Debounce that drops its pending value when the source closes
DebounceRecvDrop ==
    /\ op = "Debounce"
    /\ pc = "select"
    /\ \/ /\ CanRecv(1)
          /\ Recv(1)
          /\ pending' = <<Front(1)>>
          /\ ArmTimer
          /\ timerCh' = TRUE
          /\ waited' = 0
          /\ burstEnd' = IF recvd[1] >= 1 /\ waited >= Interval
                         THEN Append(burstEnd, recvd[1])
                         ELSE burstEnd
          /\ UNCHANGED <<pc, out, outClosed, hist, since, exitBy>>
       \/ /\ IsClosed(1)
          /\ Return("closed")
          /\ StopTimer
          /\ UNCHANGED <<timerCh, tapped>>
          /\ UNCHANGED <<recvd, pending, arrive>>
    /\ UNCHANGED <<params, apart, aux, closed, ctxDone, val, cnt, skipping, queue, batch, workers, draining>>

DebounceRecv ==
    /\ op = "Debounce"
    /\ pc = "select"
    /\ \/ /\ CanRecv(1)
          /\ Recv(1)
          /\ pending' = <<Front(1)>>
          /\ ArmTimer
          /\ timerCh' = TRUE
          /\ waited' = 0
          /\ burstEnd' = IF recvd[1] >= 1 /\ waited >= Interval
                         THEN Append(burstEnd, recvd[1])
                         ELSE burstEnd
          /\ UNCHANGED <<pc, out, outClosed, hist, since, exitBy>>
       \/ /\ IsClosed(1)
          /\ IF pending # <<>>
             THEN /\ pc' = "flush"
                  /\ UNCHANGED <<timers, out, outClosed, hist, since, exitBy>>
             ELSE /\ Return("closed")
                  /\ StopTimer
                  /\ UNCHANGED <<timerCh, tapped>>
          /\ UNCHANGED <<recvd, pending, arrive>>
    /\ UNCHANGED <<params, apart, aux, closed, ctxDone, val, cnt, skipping, queue, batch, workers, draining>>

\* `case <-timerCh: if pending != nil { select ... }`
DebounceTimer ==
    /\ op = "Debounce"
    /\ pc = "select"
    /\ timerCh
    /\ tfired
    /\ tfired' = FALSE
    /\ pc' = IF pending # <<>> THEN "send" ELSE "select"
    /\ UNCHANGED <<params, apart, aux, arrive, recvd, closed, ctxDone, locals, tleft, timerCh, workers,
                   draining, out, outClosed, hist, since, exitBy>>

DebounceSend ==
    /\ op = "Debounce"
    /\ \/ /\ pc = "send"
          /\ Deliver(pending[1])
          /\ pending' = <<>>
          /\ pc' = "select"
          /\ UNCHANGED <<timers, exitBy>>
       \/ /\ pc = "flush"
          /\ Emit(pending[1])
          /\ Close("closed")
          /\ StopTimer
          /\ UNCHANGED <<pending, timerCh>>
    /\ UNCHANGED <<params, apart, aux, arrive, recvd, closed, ctxDone, val, cnt, skipping, queue, batch,
                   workers, draining, tapped>>

\* ---------------------------------------------------------------- timing.go
\* Delay's main goroutine: `case <-ctx.Done(): return`, then the deferred wg.Wait()
DelayCtx ==
    /\ op = "Delay"
    /\ pc = "select"
    /\ ctxDone
    /\ pc' = "wait"
    /\ exitBy' = "ctx"
    /\ UNCHANGED <<params, apart, aux, arrive, recvd, closed, ctxDone, locals, timers, workers, draining,
                   out, outClosed, hist, since>>

\* a receive that goes round the loop again when the input is closed
DelayRecvOn ==
    /\ op = "Delay"
    /\ pc = "select"
    /\ \/ /\ CanRecv(1)
          /\ Recv(1)
          /\ wpc' = Append(wpc, "timer")
          /\ wval' = Append(wval, <<Front(1)>>)
          /\ wtleft' = Append(wtleft, Interval)
       \/ /\ IsClosed(1)
          /\ UNCHANGED <<recvd, wpc, wval, wtleft>>
    /\ UNCHANGED <<params, apart, elapsed, arrive, closed, ctxDone, pc, locals, timers, wrecvd, draining,
                   out, outClosed, hist, since, exitBy>>

\* `case val, ok := <-in`: one more goroutine, with a timer of its own, per value
DelayRecv ==
    /\ op = "Delay"
    /\ pc = "select"
    /\ \/ /\ CanRecv(1)
          /\ Recv(1)
          /\ wpc' = Append(wpc, "timer")
          /\ wval' = Append(wval, <<Front(1)>>)
          /\ wtleft' = Append(wtleft, Interval)
          /\ UNCHANGED <<pc, exitBy>>
       \/ /\ IsClosed(1)
          /\ pc' = "wait"
          /\ exitBy' = "closed"
          /\ UNCHANGED <<recvd, wpc, wval, wtleft>>
    /\ UNCHANGED <<params, apart, elapsed, arrive, closed, ctxDone, locals, timers, wrecvd, draining,
                   out, outClosed, hist, since>>

\* a close that waits for one of the goroutines only
DelayCloseEarly ==
    /\ op = "Delay"
    /\ pc = "wait"
    /\ \E j \in DOMAIN wpc : wpc[j] = "done"
    /\ Return(exitBy)
    /\ UNCHANGED <<params, apart, aux, arrive, recvd, closed, ctxDone, locals, timers, workers, draining, tapped>>

\* `wg.Wait(); close(outChan)`
DelayClose ==
    /\ op = "Delay"
    /\ pc = "wait"
    /\ \A j \in DOMAIN wpc : wpc[j] = "done"
    /\ Return(exitBy)
    /\ UNCHANGED <<params, apart, aux, arrive, recvd, closed, ctxDone, locals, timers, workers, draining, tapped>>

\* goroutine j: the ctx.Done() case of either select; the deferred timer.Stop()
DelaySendCtx(j) ==
    /\ op = "Delay"
    /\ j \in DOMAIN wpc
    /\ wpc[j] \in {"timer", "send"}
    /\ ctxDone
    /\ wpc' = [wpc EXCEPT ![j] = "done"]
    /\ wtleft' = [wtleft EXCEPT ![j] = 0]
    /\ UNCHANGED <<params, apart, elapsed, arrive, recvd, closed, ctxDone, pc, locals, timers, wval,
                   wrecvd, draining, out, outClosed, hist, since, exitBy>>

\* a goroutine that goes on to send without its timer's expiry
DelayTimerNow(j) ==
    /\ op = "Delay"
    /\ j \in DOMAIN wpc
    /\ wpc[j] = "timer"
    /\ wpc' = [wpc EXCEPT ![j] = "send"]
    /\ UNCHANGED <<params, apart, aux, arrive, recvd, closed, ctxDone, pc, locals, timers, wval,
                   wrecvd, draining, out, outClosed, hist, since, exitBy>>

\* goroutine j: `case <-timer.C`
DelayTimer(j) ==
    /\ op = "Delay"
    /\ j \in DOMAIN wpc
    /\ wpc[j] = "timer"
    /\ wtleft[j] = 0
    /\ wpc' = [wpc EXCEPT ![j] = "send"]
    /\ UNCHANGED <<params, apart, aux, arrive, recvd, closed, ctxDone, pc, locals, timers, wval,
                   wrecvd, draining, out, outClosed, hist, since, exitBy>>

\* goroutine j: `case outChan <- v: return`
DelaySend(j) ==
    /\ op = "Delay"
    /\ j \in DOMAIN wpc
    /\ wpc[j] = "send"
    /\ Deliver(wval[j][1])
    /\ wpc' = [wpc EXCEPT ![j] = "done"]
    /\ UNCHANGED <<params, apart, aux, arrive, recvd, closed, ctxDone, pc, locals, timers, wval,
                   wrecvd, draining, tapped, exitBy>>

\* Timeout: the ctx.Done() case of either select; the deferred timer.Stop()
TimeoutCtx ==
    /\ op = "Timeout"
    /\ pc \in {"select", "send"}
    /\ ctxDone
    /\ Return("ctx")
    /\ StopTimer
    /\ UNCHANGED <<params, apart, aux, arrive, recvd, closed, ctxDone, locals, timerCh, workers, draining, tapped>>

\* `case <-timer.C: return`
TimeoutTimer ==
    /\ op = "Timeout"
    /\ pc = "select"
    /\ tfired
    /\ Return("timeout")
    /\ StopTimer
    /\ UNCHANGED <<params, apart, aux, arrive, recvd, closed, ctxDone, locals, timerCh, workers, draining, tapped>>

\* `case val, ok := <-in`: timer.Reset(timeout), then the select that sends
TimeoutRecv ==
    /\ op = "Timeout"
    /\ pc = "select"
    /\ \/ /\ CanRecv(1)
          /\ Recv(1)
          /\ val' = <<Front(1)>>
          /\ ArmTimer
          /\ waited' = 0
          /\ pc' = "send"
          /\ UNCHANGED <<out, outClosed, hist, since, exitBy>>
       \/ /\ IsClosed(1)
          /\ Return("closed")
          /\ StopTimer
          /\ UNCHANGED <<recvd, val, tapped, waited>>
    /\ UNCHANGED <<params, apart, aux, burstEnd, closed, ctxDone, cnt, skipping, pending, queue, batch,
                   timerCh, workers, draining>>

TimeoutSend ==
    /\ op = "Timeout"
    /\ pc = "send"
    /\ Deliver(val[1])
    /\ pc' = "select"
    /\ UNCHANGED <<params, apart, aux, arrive, recvd, closed, ctxDone, locals, timers, workers,
                   draining, tapped, exitBy>>

\* ----------------------------------------------------------- specification
\* the ctx.Done() case of a select
CtxStep ==
    \/ TakeCtx \/ SkipCtx \/ TakeWhileCtx \/ SkipWhileCtx \/ TapCtx
    \/ MapCtx \/ FilterCtx \/ ZipCtx \/ RepeatCtx
    \/ ThrottleCtx \/ FixedIntervalCtx \/ BatchCtx \/ DebounceCtx
    \/ FlatMapCtx \/ DelayCtx \/ TimeoutCtx
    \/ \E j \in DOMAIN wpc : DelaySendCtx(j)
    \/ \E j \in DOMAIN wpc : MergeCtx(j)
    \/ \E j \in DOMAIN wpc : forwardSimpleCtx(j)
\* a receive from a source (a value, or the closed channel's ok = false)
RecvStep ==
    \/ TakeRecv \/ SkipRecv \/ TakeWhileRecv \/ SkipWhileRecv \/ TapRecv
    \/ MapRecv \/ FilterRecv \/ ZipRecv
    \/ ThrottleRecv \/ FixedIntervalRecv \/ BatchRecv \/ DebounceRecv
    \/ FlatMapRecv \/ DelayRecv \/ TimeoutRecv
    \/ \E j \in DOMAIN wpc : MergeRecv(j)
    \/ \E j \in DOMAIN wpc : forwardSimpleRecv(j)
\* a send on the output, taken by the consumer
SendStep ==
    \/ TakeSend \/ SkipSend \/ TakeWhileSend \/ SkipWhileSend \/ TapSend
    \/ MapSend \/ FilterSend \/ ZipSend \/ RepeatSend
    \/ ThrottleSend \/ FixedIntervalSend \/ BatchSend \/ DebounceSend \/ TimeoutSend
    \/ \E j \in DOMAIN wpc : DelaySend(j)
    \/ \E j \in DOMAIN wpc : MergeSend(j)
    \/ \E j \in DOMAIN wpc : forwardSimpleSend(j)
\* a step that waits for nothing
LocalStep == TakeFull \/ MergeClose \/ FlatMapClose \/ DelayClose
\* a drain goroutine discards a value
DrainStep == \E c \in draining : drain(c)
\* an expiry is taken from a ticker's or timer's channel
TimerStep ==
    \/ ThrottleTimer \/ FixedIntervalTimer \/ BatchTimer \/ DebounceTimer \/ TimeoutTimer
    \/ \E j \in DOMAIN wpc : DelayTimer(j)
\* the world around the operator
EnvStep == Cancel \/ \E i \in {1, 2} : CloseIn(i)

Next ==
    \/ CtxStep \/ RecvStep \/ SendStep \/ LocalStep \/ TimerStep \/ DrainStep
    \/ Tick \/ EnvStep

Spec == Init /\ [][Next]_vars

\* Every goroutine that can take a step eventually takes one, and a select case
\* that stays ready is eventually chosen (Go picks among the ready cases at
\* random); timers keep running.  Nothing is assumed of the producer closing
\* its channel, of the caller cancelling, or of the consumer receiving.
FairSpec ==
    /\ Spec
    /\ WF_vars(CtxStep)
    /\ WF_vars(RecvStep)
    /\ WF_vars(LocalStep)
    /\ WF_vars(TimerStep)
    /\ WF_vars(DrainStep)
    /\ WF_vars(Tick)

\* FairSpec with a consumer that keeps receiving from the output
LiveSpec == FairSpec /\ WF_vars(SendStep)

\* FlatMap alone, on sources long enough for forwarders to run side by side
FlatMapInit ==
    /\ \E m \in 0..MaxInner : StartWith("FlatMap", 0, <<Iota(m), <<>>>>)
    /\ NoGen /\ NoConf /\ NoTerm

FlatMapNext ==
    \/ FlatMapCtx \/ FlatMapRecv \/ FlatMapClose
    \/ \E j \in DOMAIN wpc : forwardSimpleCtx(j)
    \/ \E j \in DOMAIN wpc : forwardSimpleRecv(j)
    \/ \E j \in DOMAIN wpc : forwardSimpleSend(j)
    \/ DrainStep
    \/ Cancel \/ CloseIn(1)

FlatMapSpec == FlatMapInit /\ [][FlatMapNext]_vars

\* Range alone, on every start, end and step of a signed and an unsigned type
RangeInit ==
    /\ StartWith("Range", 0, <<<<>>, <<>>>>)
    /\ signed \in BOOLEAN
    /\ start \in TypeOf(signed)
    /\ end \in TypeOf(signed)
    /\ step \in TypeOf(signed)
    /\ idx = start
    /\ NoConf /\ NoTerm

RangeNext == RangeCtx \/ RangeSend \/ RangeEnd \/ Cancel

RangeSpec == RangeInit /\ [][RangeNext]_vars

\* the call of a constructor or operator with options, up to the channel's creation
OptionsInit ==
    /\ \E o \in Configured \cup {"SliceToChan"} : \E m \in 0..MaxLen :
            StartWith(o, 0, <<Iota(m), <<>>>>)
    /\ opts \in OptionLists(MaxOpts)
    /\ bufferSize = 0
    /\ made = "no"
    /\ NoGen /\ NoTerm

OptionsNext == applyChanOptions \/ SliceToChan

OptionsSpec == OptionsInit /\ [][OptionsNext]_vars

\* a terminal call on a source of any values; Reduce with an initial value
TerminalInit ==
    /\ \E o \in Terminals : \E k \in (IF o = "Reduce" THEN Initials ELSE {0}) :
        \E s \in SeqsUpTo(MaxLen) : StartWith(o, k, <<s, <<>>>>)
    /\ accumulator = (IF op = "Reduce" THEN n ELSE 0)
    /\ found = FALSE
    /\ ret = <<>>
    /\ NoGen /\ NoConf

\* the steps of the terminal itself
TerminalStep ==
    \/ TerminalCtx \/ TerminalClosed
    \/ ReduceRecv \/ CountRecv \/ FirstRecv \/ LastRecv \/ AnyRecv \/ AllRecv

TerminalNext == TerminalStep \/ Cancel \/ CloseIn(1)

\* the calling goroutine keeps running, and a select case that stays ready is
\* eventually chosen
TerminalSpec ==
    /\ TerminalInit /\ [][TerminalNext]_vars
    /\ WF_vars(TerminalCtx)
    /\ WF_vars(TerminalClosed)

\* ------------------------------------------------------------------ claims
\* the drain goroutine of source i has been started
Draining(i) == <<"in", i>> \in draining

\* C1: a single-input operator that returns because the context was cancelled
\* while its source is not closed and its producer is still sending has
\* started a drain of that source.
C1_DrainOnCancel ==
    (op \in OneInput \ {"FlatMap"} /\ pc = "done" /\ exitBy = "ctx"
        /\ ~closed[1] /\ CanRecv(1))
        => Draining(1)

\* C2: Take that returns after count values, TakeWhile that returns on a false
\* predicate and Zip that returns because one source closed have started a
\* drain of every source they leave unclosed.
C2_DrainOnAbandon ==
    (/\ pc = "done"
     /\ \/ op = "Take" /\ exitBy = "count" /\ n >= 1 /\ Len(out) = n
        \/ op = "TakeWhile" /\ exitBy = "predicate"
        \/ op = "Zip" /\ exitBy \in {"closed", "closed2"})
        => \A i \in Sources(op, n) : (~closed[i] /\ CanRecv(i)) => Draining(i)

\* C3: once the context is cancelled, the output of Take, Skip, TakeWhile,
\* SkipWhile, Tap, Throttle, Debounce, FixedInterval and Zip is eventually
\* closed, whatever the producer and the consumer do.
C3Ops == {"Take", "Skip", "TakeWhile", "SkipWhile", "Tap", "Throttle", "Debounce",
          "FixedInterval", "Zip"}
C3_ClosedAfterCancel == (op \in C3Ops /\ ctxDone) ~> outClosed

\* C3 witness: the output was closed by cancellation with the source open and
\* silent and with nothing ever received from the output.
C3_Witness ==
    /\ op \in C3Ops
    /\ outClosed
    /\ exitBy = "ctx"
    /\ ~closed[1]
    /\ src[1] # <<>>
    /\ recvd[1] = Len(src[1])
    /\ out = <<>>

\* C4: once the context is cancelled, the output of Map and of Filter is
\* eventually closed.
C4_MapFilterClosedAfterCancel == (op \in {"Map", "Filter"} /\ ctxDone) ~> outClosed

\* C5: once the context is cancelled, Merge's output is eventually closed.
C5_MergeClosedAfterCancel == (op = "Merge" /\ ctxDone) ~> outClosed

\* C6: once the context is cancelled, Batch's output is eventually closed, also
\* when no consumer receives the pending batch.
C6_BatchClosedAfterCancel == (op = "Batch" /\ ctxDone) ~> outClosed

\* C7: a generator or operator built on send/recieve delivers at most one
\* value after the context was cancelled.
C7_AtMostOneAfterCancel ==
    op \in {"Repeat", "Take", "Skip", "TakeWhile", "SkipWhile", "Tap"} => late <= 1

\* C8: every value Throttle emits is the value it received last, no received
\* value is emitted twice (so the output is a subsequence of the input), and
\* a send is only ever attempted with a pending value.
C8_ThrottleLatest ==
    op = "Throttle" =>
        /\ \A k \in 1..Len(out) : outAt[k] >= 1 /\ out[k] = src[1][outAt[k]]
        /\ \A k \in 1..(Len(out) - 1) : outAt[k] < outAt[k + 1]
        /\ pc = "send" => pending # <<>>

\* C8 witness: Throttle emitted twice and dropped the first value it received.
C8_Witness == op = "Throttle" /\ Len(out) = 2 /\ outAt[1] = 2

\* C9: every output of Throttle is delivered at least one interval after the
\* previous one.
C9_ThrottleSpacing == op = "Throttle" => gapOK

\* C10: when the source closes while Throttle holds a pending value, the output
\* is closed and the pending value (the last one received) was not emitted.
C10_ThrottleDropsPending ==
    (op = "Throttle" /\ exitBy = "closed" /\ pending # <<>>) =>
        /\ outClosed
        /\ pending[1] = src[1][recvd[1]]
        /\ \A k \in 1..Len(out) : outAt[k] < recvd[1]

\* C10 witness: the source closed on a Throttle holding a pending value, after
\* an earlier value had been emitted.
C10_Witness ==
    op = "Throttle" /\ exitBy = "closed" /\ pending # <<>> /\ out # <<>>

\* C11: Throttle emits the first value it receives at once: while it holds the
\* first value in its main select with nothing emitted yet, no time has passed
\* since that value arrived.
C11_ThrottleFirstImmediately ==
    (op = "Throttle" /\ pc = "select" /\ recvd[1] = 1 /\ pending # <<>> /\ out = <<>>)
        => waited = 0

C13_DebounceOnePerBurst ==
    (op = "Debounce" /\ ~ctxDone) =>
        \A k \in 1..Len(burstEnd) : k <= Len(out) /\ outAt[k] = burstEnd[k]

\* C14: when Debounce finds its source closed while it holds a pending value,
\* it offers that value (the last one received) at once, whatever the timer's
\* state; having returned for that reason its output is closed and ends with
\* the last value of the source; fed 1, 2, 3 in quick succession and closed,
\* it outputs exactly <<3>>.
C14_DebounceFlushOnClose ==
    op = "Debounce" =>
        /\ pc = "flush" =>
              /\ IsClosed(1)
              /\ pending # <<>>
              /\ pending[1] = src[1][recvd[1]]
        /\ (exitBy = "closed" /\ src[1] # <<>>) =>
              /\ outClosed
              /\ out # <<>>
              /\ out[Len(out)] = src[1][Len(src[1])]
              /\ outAt[Len(out)] = Len(src[1])
        /\ (exitBy = "closed" /\ src[1] = Iota(3) /\ burstEnd = <<>>) => out = <<3>>

\* C14 witness: fed 1, 2, 3 and closed, Debounce flushed 3 with no time passed
\* since 3 arrived.
C14_Witness ==
    /\ op = "Debounce"
    /\ exitBy = "closed"
    /\ src[1] = Iota(3)
    /\ pending = <<3>>
    /\ waited = 0
    /\ out = <<3>>

\* C15: Debounce delivers nothing after the context was cancelled.
C15_DebounceNothingAfterCancel == op = "Debounce" => late = 0

\* FixedInterval: what was received is what was emitted followed by the queue,
\* the output is a prefix of the source, and a return not caused by the
\* cancellation happens with the source closed, the queue empty and the whole
\* source emitted
FixedIntervalLossless ==
    op = "FixedInterval" =>
        /\ out \o queue = SubSeq(src[1], 1, recvd[1])
        /\ exitBy \in {"closed", "drained"} =>
              /\ outClosed
              /\ IsClosed(1)
              /\ queue = <<>>
              /\ out = src[1]
        /\ outClosed => exitBy \in {"closed", "drained", "ctx", "ctxDrain"}

\* C16: FixedIntervalLossless always holds and, with a consumer that keeps
\* receiving, every value FixedInterval received is eventually emitted (its
\* queue ends up empty for good) unless the context is cancelled, and after the
\* source closed the output is eventually closed with every value emitted
\* unless the context is cancelled.
C16_FixedIntervalEmitsAll ==
    /\ []FixedIntervalLossless
    /\ <>[](op = "FixedInterval" => (ctxDone \/ queue = <<>>))
    /\ (op = "FixedInterval" /\ closed[1]) ~>
          (op = "FixedInterval" /\ (ctxDone \/ (outClosed /\ out = src[1])))

\* C16 witness: all three values were queued before the first was emitted, the
\* queue was emptied after the source closed, and the output closed after the
\* third.
C16_Witness ==
    /\ op = "FixedInterval"
    /\ exitBy = "drained"
    /\ ~ctxDone
    /\ out = Iota(3)
    /\ outAt[1] = 3
    /\ outClosed

\* C17: every output of FixedInterval is delivered at least one interval after
\* the previous one.
C17_FixedIntervalSpacing == op = "FixedInterval" => gapOK

RECURSIVE Flatten(_)
Flatten(ss) == IF ss = <<>> THEN <<>> ELSE Head(ss) \o Flatten(Tail(ss))

\* C19: the batches emitted so far, concatenated in emission order and followed
\* by the accumulator, are exactly the values received so far; every emitted
\* batch holds between 1 and batchSize values; once Batch has returned because
\* the source closed, the concatenation is the whole source.
C19_BatchConcat ==
    op = "Batch" =>
        /\ Flatten(out) \o batch = SubSeq(src[1], 1, recvd[1])
        /\ \A k \in 1..Len(out) : Len(out[k]) >= 1 /\ Len(out[k]) <= n
        /\ (pc = "done" /\ exitBy = "closed") => (outClosed /\ Flatten(out) = src[1])

\* C19 witness: Batch with batchSize 2 on 1, 2, 3 emitted <<1, 2>> on size and
\* <<3>> when the source closed.
C19_Witness ==
    /\ op = "Batch"
    /\ n = 2
    /\ pc = "done"
    /\ exitBy = "closed"
    /\ ~ctxDone
    /\ out = <<<<1, 2>>, <<3>>>>

\* Batch: a send on size holds a full batch; a send on the timer case holds a
\* batch whose first item arrived at least a timeout ago; any other send is
\* the one before returning on a closed source or a cancelled context; an
\* expiry in the timer's channel belongs to the batch being accumulated; the
\* timer runs from the arrival of the first item of the batch
BatchTimerFresh ==
    op = "Batch" =>
        /\ pc = "sendFull" => Len(batch) >= n
        /\ pc = "sendBatch" => (batch # <<>> /\ waited >= Interval)
        /\ pc = "sendBatchReturn" => (batch # <<>> /\ (IsClosed(1) \/ ctxDone))
        /\ tfired => (batch # <<>> /\ waited >= Interval)
        /\ (pc = "select" /\ batch # <<>> /\ ~tfired) =>
              (timerCh /\ tleft = Interval - waited)
        /\ (pc = "select" /\ batch = <<>>) => (~timerCh /\ ~tfired /\ tleft = 0)

\* C20: BatchTimerFresh always holds, and every step that emits a batch shorter
\* than batchSize is the send of the timer case, at least a timeout after the
\* first item of that batch arrived, or the send before returning on a closed
\* source or a cancelled context.
C20_BatchShortOnlyOnTimeout ==
    /\ []BatchTimerFresh
    /\ [][(op = "Batch" /\ Len(out') > Len(out) /\ Len(batch) < n) =>
            \/ pc = "sendBatch" /\ waited >= Interval
            \/ pc = "sendBatchReturn" /\ (IsClosed(1) \/ ctxDone)]_vars

\* C20 witness: after a batch emitted on size, the next batch holds one item
\* and is being sent by the timer case.
C20_Witness ==
    /\ op = "Batch"
    /\ n = 2
    /\ out = <<<<1, 2>>>>
    /\ pc = "sendBatch"
    /\ batch = <<3>>
    /\ ~closed[1]
    /\ ~ctxDone

\* the consecutive chunks of k values of s, the last one holding the remainder
RECURSIVE Chunks(_, _)
Chunks(s, k) ==
    IF s = <<>> THEN <<>>
    ELSE IF Len(s) <= k THEN <<s>>
    ELSE <<SubSeq(s, 1, k)>> \o Chunks(SubSeq(s, k + 1, Len(s)), k)

\* C21: as long as the timer case never sent a batch and the context is not
\* cancelled, every batch Batch has emitted before returning holds exactly
\* batchSize values, and once it has returned on the closed source its output
\* is closed and holds exactly the consecutive chunks of batchSize values of
\* the source with the remainder, if any, as the last batch (nothing for an
\* empty source).
C21_BatchChunks ==
    (op = "Batch" /\ ~elapsed /\ ~ctxDone) =>
        /\ pc # "done" => \A k \in 1..Len(out) : Len(out[k]) = n
        /\ pc = "done" =>
              /\ exitBy = "closed"
              /\ outClosed
              /\ out = Chunks(src[1], n)

\* C21 witness: Batch with batchSize 2 on 1, 2, 3 returned with <<1, 2>> and
\* the remainder <<3>>, no timeout having elapsed.
C21_Witness ==
    /\ op = "Batch"
    /\ n = 2
    /\ src[1] = Iota(3)
    /\ ~elapsed
    /\ ~ctxDone
    /\ outClosed
    /\ Len(out) = 2
    /\ Len(out[2]) = 1

\* C22: with a consumer that keeps receiving, a cancellation that finds Batch
\* with a non-empty accumulator leads to the output being closed; Batch never
\* returns with values left in its accumulator, what it has emitted when it
\* returns is everything it received, and the send before a return hands over
\* the whole accumulator as one batch.
C22_BatchFlushOnCancel ==
    /\ (op = "Batch" /\ ctxDone /\ batch # <<>>) ~> (op = "Batch" /\ outClosed)
    /\ [](op = "Batch" /\ pc = "done" =>
            /\ outClosed
            /\ batch = <<>>
            /\ Flatten(out) = SubSeq(src[1], 1, recvd[1]))
    /\ [][(op = "Batch" /\ pc = "sendBatchReturn" /\ pc' = "done") =>
            out' = Append(out, batch)]_vars

\* C22 witness: the cancellation found Batch (batchSize 2) holding the single
\* value 1 with the source still open; <<1>> was delivered after the
\* cancellation and the output closed.
C22_Witness ==
    /\ op = "Batch"
    /\ n = 2
    /\ exitBy = "ctx"
    /\ ~closed[1]
    /\ outClosed
    /\ late = 1
    /\ out = <<<<1>>>>

\* the values of out that come from source i, in output order
FromSource(i) ==
    LET Test(v) == \E k \in 1..Len(src[i]) : src[i][k] = v
    IN  SelectSeq(out, Test)

\* Merge without cancellation: the values of each source appear in the output
\* in that source's order, each once (all that were received but the one its
\* forwarder still holds); once the output is closed every source is closed
\* and the output holds every value of every source and nothing else
MergeInterleaves ==
    (op = "Merge" /\ ~ctxDone) =>
        /\ \A i \in 1..n :
              FromSource(i) =
                  SubSeq(src[i], 1, recvd[i] - (IF wpc[i] = "send" THEN 1 ELSE 0))
        /\ outClosed =>
              /\ \A i \in 1..n : IsClosed(i) /\ FromSource(i) = src[i]
              /\ Len(out) = Len(src[1]) + Len(src[2])
        /\ n = 0 => out = <<>>

\* C23: MergeInterleaves always holds, and Merge of zero sources closes its
\* output without waiting for anything.
C23_MergeUnion ==
    /\ []MergeInterleaves
    /\ (op = "Merge" /\ n = 0) ~> outClosed

\* C23 witness: Merge of 1, 2 and 11, 12 closed its output after the four
\* values, interleaved, the second source first.
C23_Witness ==
    /\ op = "Merge"
    /\ n = 2
    /\ ~ctxDone
    /\ outClosed
    /\ out = <<11, 1, 2, 12>>

\* the smaller of two numbers
Min(a, b) == IF a <= b THEN a ELSE b

\* C24: without cancellation the i-th output of Zip is the pair of the i-th
\* value of each source, and once Zip has returned its output is closed and
\* holds exactly as many pairs as the shorter source has values.
C24_ZipPairs ==
    (op = "Zip" /\ ~ctxDone) =>
        /\ \A k \in 1..Len(out) :
              /\ k <= Min(Len(src[1]), Len(src[2]))
              /\ out[k] = <<src[1][k], src[2][k]>>
        /\ pc = "done" =>
              /\ outClosed
              /\ Len(out) = Min(Len(src[1]), Len(src[2]))

\* C24 witness: the second source closed after one value while the first had
\* three; Zip returned with the single pair, holding the second value of the
\* first source unpaired.
C24_Witness ==
    /\ op = "Zip"
    /\ ~ctxDone
    /\ exitBy = "closed2"
    /\ src = <<Iota(3), Second(1)>>
    /\ recvd = <<2, 1>>
    /\ out = <<<<1, 11>>>>
    /\ outClosed

\* the larger of two numbers
Max(a, b) == IF a >= b THEN a ELSE b

\* C25: without cancellation the output of Take is a prefix of the source of
\* at most max(count, 0) values, and once Take has returned its output is
\* closed and holds exactly the first min(max(count, 0), m) values of a source
\* of m values.
C25_TakePrefix ==
    (op = "Take" /\ ~ctxDone) =>
        /\ Len(out) <= Max(n, 0)
        /\ out = SubSeq(src[1], 1, Len(out))
        /\ pc = "done" =>
              /\ outClosed
              /\ out = SubSeq(src[1], 1, Min(Max(n, 0), Len(src[1])))

\* C25 witness: Take(2) of 1, 2, 3 returned on its count with <<1, 2>>.
C25_Witness ==
    /\ op = "Take"
    /\ n = 2
    /\ ~ctxDone
    /\ src[1] = Iota(3)
    /\ exitBy = "count"
    /\ outClosed
    /\ out = <<1, 2>>

\* C26: without cancellation the output of Skip is the source without its
\* first max(count, 0) values, as far as it was forwarded, and once Skip has
\* returned its output is closed and holds all the rest of the source (nothing
\* when count is at least the length of the source).
C26_SkipTail ==
    (op = "Skip" /\ ~ctxDone) =>
        /\ out = SubSeq(src[1], Max(n, 0) + 1, Max(n, 0) + Len(out))
        /\ pc = "done" =>
              /\ outClosed
              /\ IsClosed(1)
              /\ out = SubSeq(src[1], Max(n, 0) + 1, Len(src[1]))

\* C26 witness: Skip(1) of 1, 2, 3 returned with <<2, 3>>.
C26_Witness ==
    /\ op = "Skip"
    /\ n = 1
    /\ ~ctxDone
    /\ src[1] = Iota(3)
    /\ outClosed
    /\ out = <<2, 3>>

\* the longest prefix of s whose values all satisfy the predicate
RECURSIVE PrefixWhile(_)
PrefixWhile(s) ==
    IF s = <<>> \/ ~predicate(Head(s)) THEN <<>>
    ELSE <<Head(s)>> \o PrefixWhile(Tail(s))

\* C27: the output of TakeWhile is always a prefix of the longest prefix of the
\* source that satisfies the predicate; TakeWhile receives nothing after the
\* first value that fails the predicate; once it has returned without
\* cancellation its output is closed and is exactly that longest prefix.
C27_TakeWhilePrefix ==
    op = "TakeWhile" =>
        /\ Len(out) <= Len(PrefixWhile(src[1]))
        /\ out = SubSeq(src[1], 1, Len(out))
        /\ recvd[1] <= Len(PrefixWhile(src[1])) + 1
        /\ exitBy = "predicate" =>
              /\ outClosed
              /\ recvd[1] = Len(PrefixWhile(src[1])) + 1
        /\ (pc = "done" /\ ~ctxDone) =>
              /\ outClosed
              /\ out = PrefixWhile(src[1])

\* C27 witness: TakeWhile(even) of 2, 1, 2 returned on the value 1 with <<2>>,
\* leaving the last value, which satisfies the predicate, in the source.
C27_Witness ==
    /\ op = "TakeWhile"
    /\ src[1] = <<2, 1, 2>>
    /\ exitBy = "predicate"
    /\ recvd[1] = 2
    /\ outClosed
    /\ out = <<2>>

\* C28: the predicate of SkipWhile is called exactly on the values received up
\* to and including the first one that fails it; the output is the source
\* from that value on, as far as it was forwarded; once SkipWhile has returned
\* without cancellation its output is closed and holds the whole source from
\* that value on.
C28_SkipWhileTail ==
    op = "SkipWhile" =>
        LET skip == Len(PrefixWhile(src[1]))
        IN  /\ tapped = SubSeq(src[1], 1, Min(recvd[1], skip + 1))
            /\ out = SubSeq(src[1], skip + 1, skip + Len(out))
            /\ (pc = "done" /\ ~ctxDone) =>
                  /\ outClosed
                  /\ out = SubSeq(src[1], skip + 1, Len(src[1]))

\* C28 witness: SkipWhile(even) of 2, 1, 2 returned with <<1, 2>>, the last
\* value forwarded although it satisfies the predicate, the predicate called
\* on 2 and 1 only.
C28_Witness ==
    /\ op = "SkipWhile"
    /\ src[1] = <<2, 1, 2>>
    /\ ~ctxDone
    /\ outClosed
    /\ tapped = <<2, 1>>
    /\ out = <<1, 2>>

C30Ops == Ops \ {"Repeat"}

\* C30: with a consumer that keeps receiving, fair scheduling and running
\* timers, whenever all inputs of an operator are closed and the context is not
\* cancelled, the operator's output is eventually closed (or the context is
\* cancelled first); for every operator that reads inputs.
C30_ClosesAfterInputs ==
    (op \in C30Ops /\ ~ctxDone /\ \A i \in Sources(op, n) : closed[i])
        ~> (ctxDone \/ outClosed)

\* Delay closed its output on the closed input, never cancelled, after both
\* of its goroutines delivered their values
C30_Witness ==
    /\ op = "Delay"
    /\ ~ctxDone
    /\ closed[1]
    /\ exitBy = "closed"
    /\ outClosed
    /\ Len(out) = 2
\* the values received and already forwarded or dropped: all but the one the
\* goroutine holds for its send
Handled == SubSeq(src[1], 1, recvd[1] - (IF pc = "send" THEN 1 ELSE 0))

\* C37: while the context is not cancelled, Map has delivered f(x) for the
\* values it handled, in order, Filter those of them that satisfy the
\* predicate, in order, and Tap the values themselves, having called its
\* function once on each value received, in order, before the value is sent;
\* when the operator has returned, all of the source was handled.
C37_MapFilterTap ==
    ~ctxDone /\ op \in {"Map", "Filter", "Tap"} =>
        /\ op = "Map" => out = [k \in 1..Len(Handled) |-> mapFunc(Handled[k])]
        /\ op = "Filter" => out = SelectSeq(Handled, filterFunc)
        /\ op = "Tap" => out = Handled /\ tapped = SubSeq(src[1], 1, recvd[1])
        /\ pc = "done" => Handled = src[1]

\* Filter returned on the closed source <<1, 2, 1>> without a cancellation,
\* having delivered the 2 alone
C37_Witness ==
    /\ op = "Filter"
    /\ ~ctxDone
    /\ src[1] = <<1, 2, 1>>
    /\ outClosed
    /\ out = <<2>>
\* C38: Take never receives more than max(count, 0) values, cancelled or not:
\* it receives nothing for count <= 0, a step taken after count values were
\* forwarded receives nothing, and when it returns because the count is
\* reached the values after the first max(count, 0) were not received.
C38_TakeLeavesRest ==
    /\ [](op = "Take" =>
            /\ recvd[1] <= Max(n, 0)
            /\ exitBy = "count" => (recvd[1] = Max(n, 0) /\ Len(out) = Max(n, 0)))
    /\ [][(op = "Take" /\ Len(out) >= n) => recvd' = recvd]_vars

\* Take(2) on a source that offers three values returned on its count with
\* the third value not received and the source still open
C38_Witness ==
    /\ op = "Take"
    /\ n = 2
    /\ src[1] = Iota(3)
    /\ exitBy = "count"
    /\ outClosed
    /\ recvd[1] = 2
    /\ ~closed[1]
\* C39: Zip holds at most the one value of each source that is not yet
\* delivered in a pair; when it has returned on a closed source, of sources of
\* p and q values it has received min(p, q + 1) of the first and min(p, q) of
\* the second, so that on the second source closing first one value of the
\* first was received and not delivered.
C39_ZipConsumes ==
    op = "Zip" =>
        /\ Len(val) <= 2
        /\ recvd[1] - Len(out) \in {0, 1}
        /\ recvd[2] - Len(out) \in {0, 1}
        /\ recvd[2] <= recvd[1]
        /\ exitBy \in {"closed", "closed2"} =>
              /\ recvd[1] = Min(Len(src[1]), Len(src[2]) + 1)
              /\ recvd[2] = Min(Len(src[1]), Len(src[2]))
        /\ (exitBy = "closed2" /\ Len(src[1]) > Len(src[2])) => recvd[1] = Len(out) + 1

\* the second source closed empty while the first had two values: Zip
\* returned having received the first value of the first source and delivered
\* nothing
C39_Witness ==
    /\ op = "Zip"
    /\ src = <<Iota(2), Second(0)>>
    /\ exitBy = "closed2"
    /\ outClosed
    /\ recvd = <<1, 0>>
    /\ out = <<>>
\* the number of values the forwarders 1..j have delivered: those they
\* received from their inner channels, less the one a forwarder holds
RECURSIVE Forwarded(_)
Forwarded(j) ==
    IF j = 0 THEN 0
    ELSE Forwarded(j - 1) + wrecvd[j] - (IF wpc[j] = "send" THEN 1 ELSE 0)

\* how often v occurs in the sequence s
Occurrences(s, v) == Cardinality({k \in DOMAIN s : s[k] = v})

\* how often v occurs in the inner channels of the first j source values
RECURSIVE InnerOccurrences(_, _)
InnerOccurrences(j, v) ==
    IF j = 0 THEN 0 ELSE InnerOccurrences(j - 1, v) + Occurrences(InnerOf(j), v)

\* C36: while the context is not cancelled, FlatMap has delivered every value
\* its forwarders received except those they hold; every delivery is, for some
\* forwarder, the value it received last from its inner channel, which it
\* receives in the channel's order; and when the output is closed the input
\* is closed, one forwarder per input value has forwarded all of its inner
\* channel, and the output holds every value as often as the inner channels do.
C36_FlatMapForwardsAll ==
    /\ [](op = "FlatMap" /\ ~ctxDone =>
            /\ Len(out) = Forwarded(Len(wpc))
            /\ \A j \in DOMAIN wpc : wpc[j] = "send" => wval[j] = <<InnerOf(j)[wrecvd[j]]>>
            /\ outClosed =>
                  /\ closed[1]
                  /\ Len(wpc) = Len(src[1])
                  /\ \A j \in DOMAIN wpc : wpc[j] = "done" /\ wrecvd[j] = Len(InnerOf(j))
                  /\ \A v \in 1..(2 * MaxInner) :
                        Occurrences(out, v) = InnerOccurrences(Len(src[1]), v))
    /\ [][(op = "FlatMap" /\ out' # out) =>
            \E j \in DOMAIN wpc :
                /\ wpc[j] = "send"
                /\ out' = Append(out, InnerOf(j)[wrecvd[j]])
                /\ wpc' = [wpc EXCEPT ![j] = "recv"]
                /\ wrecvd' = wrecvd]_vars

\* FlatMap closed without a cancellation on the source <<1, 2>>, the values of
\* the inner channels <<1, 2>> and <<2, 4>> interleaved, the second channel's
\* first
C36_Witness ==
    /\ op = "FlatMap"
    /\ ~ctxDone
    /\ src[1] = <<1, 2>>
    /\ outClosed
    /\ out = <<2, 1, 4, 2>>
\* C34: while the context is not cancelled, Delay's output holds exactly once
\* the value of every goroutine that has returned and no other value, in any
\* order; a goroutine sends only when `delay` clock units have passed since
\* its value was received; and when the output is closed the input is closed
\* and one goroutine per input value has delivered its value.
C34_DelayDeliversAll ==
    /\ [](op = "Delay" /\ ~ctxDone =>
            /\ Len(out) = Cardinality({j \in DOMAIN wpc : wpc[j] = "done"})
            /\ \A j \in DOMAIN wpc :
                  /\ wval[j] = <<src[1][j]>>
                  /\ Occurrences(out, src[1][j]) = (IF wpc[j] = "done" THEN 1 ELSE 0)
                  /\ wpc[j] \in {"send", "done"} => wtleft[j] = 0
            /\ outClosed =>
                  /\ closed[1]
                  /\ Len(wpc) = Len(src[1])
                  /\ \A j \in DOMAIN wpc : wpc[j] = "done"
                  /\ Len(out) = Len(src[1]))
    /\ [][(op = "Delay" /\ ~ctxDone /\ out' # out) =>
            \E j \in DOMAIN wpc :
                /\ wpc[j] = "send"
                /\ wtleft[j] = 0
                /\ out' = Append(out, src[1][j])]_vars
    /\ [][(op = "Delay" /\ ~ctxDone' /\ wtleft' # wtleft /\ Len(wtleft') = Len(wtleft)) =>
            \A j \in DOMAIN wtleft : wtleft'[j] = (IF wtleft[j] > 0 THEN wtleft[j] - 1 ELSE 0)]_vars
    /\ [][(op = "Delay" /\ Len(wtleft') > Len(wtleft)) =>
            (recvd'[1] = recvd[1] + 1 /\ wtleft' = Append(wtleft, Interval))]_vars

\* Delay closed without a cancellation on the source <<1, 2>> with the second
\* value delivered before the first
C34_Witness ==
    /\ op = "Delay"
    /\ ~ctxDone
    /\ src[1] = <<1, 2>>
    /\ outClosed
    /\ out = <<2, 1>>
\* C35: Timeout closes for inactivity only when no value was on offer: a value
\* the producer offers less than one timeout after the previous value was
\* received is forwarded, also when the consumer took the previous value
\* late.  Stated for the return that follows a delivery with no clock unit
\* in between (since = 0): the next value has then been on offer since the
\* previous receive, and the operator was not waiting in its select while the
\* timer ran.
C35_TimeoutForwardsTimely ==
    (op = "Timeout" /\ exitBy = "timeout" /\ since = 0) => ~CanRecv(1)
\* how many of start, start + step, start + 2 * step, ... come before end is
\* reached or passed (integers, not values of the type)
RangeCount ==
    IF step > 0 /\ start < end THEN (end - start + step - 1) \div step
    ELSE IF step < 0 /\ start > end THEN (start - end - step - 1) \div (0 - step)
    ELSE 0

\* C32: while the context is not cancelled the output of Range is start,
\* start + step, start + 2 * step, ..., no further than the last such value
\* below end (step > 0) or above end (step < 0), and when the output is closed
\* it holds all of them; nothing for step 0 or start = end.
C32_RangeProgression ==
    (op = "Range" /\ ~ctxDone) =>
        /\ Len(out) <= RangeCount
        /\ \A k \in DOMAIN out : out[k] = start + (k - 1) * step
        /\ outClosed => Len(out) = RangeCount

\* the distance from start to end
RangeSpan == IF start <= end THEN end - start ELSE start - end

\* C40: Range's stream is finite and stays between start and end, for every
\* start, end and step of a fixed-width type: every delivered value is from
\* start (included) to end (excluded), and no more values are delivered than
\* there are values of the type from start to end.
C40_RangeStaysInside ==
    op = "Range" =>
        /\ Len(out) <= RangeSpan
        /\ \A k \in DOMAIN out :
              /\ step > 0 => (start <= out[k] /\ out[k] < end)
              /\ step < 0 => (end < out[k] /\ out[k] <= start)
\* C31: the auto buffer option is recognised by every constructor and
\* operator: whenever WithBufferAuto() is among the options (the sizes given
\* to WithBuffer are not negative), the channel's creation returns a channel.
C31_AutoBufferAccepted ==
    (made # "no" /\ \E k \in DOMAIN opts : opts[k] = WithBufferAuto) => made = "ok"
\* the left fold of reduceFunc over s from acc
RECURSIVE FoldLeft(_, _)
FoldLeft(s, acc) == IF s = <<>> THEN acc ELSE FoldLeft(Tail(s), reduceFunc(acc, Head(s)))

\* what the terminal is to return for the stream s: Reduce the left fold from
\* the initial value, Count the length, First and Last the first and last
\* value with ok (the zero value and false for no value), Any and All whether
\* some and whether every value satisfies the predicate
Folded(s) ==
    IF op = "Reduce" THEN <<FoldLeft(s, n)>>
    ELSE IF op = "Count" THEN <<Len(s)>>
    ELSE IF op = "First" THEN (IF s = <<>> THEN <<0, FALSE>> ELSE <<s[1], TRUE>>)
    ELSE IF op = "Last" THEN (IF s = <<>> THEN <<0, FALSE>> ELSE <<s[Len(s)], TRUE>>)
    ELSE IF op = "Any" THEN <<\E k \in DOMAIN s : predicate(s[k])>>
    ELSE <<\A k \in DOMAIN s : predicate(s[k])>>

\* C33: a terminal that has returned without a cancellation returns the fold
\* of the whole stream (it returned at the close, or earlier on the value that
\* decides First, Any or All); one that returned on the cancellation returns
\* the fold of the values it had received (First: no value); and a terminal
\* does not stay blocked once the context is cancelled.
C33_TerminalFolds ==
    /\ [](op \in Terminals /\ pc = "done" =>
            /\ exitBy \in {"closed", "value"} => ret = Folded(src[1])
            /\ exitBy = "closed" => recvd[1] = Len(src[1])
            /\ exitBy = "ctx" =>
                  ret = (IF op = "First" THEN <<0, FALSE>>
                         ELSE Folded(SubSeq(src[1], 1, recvd[1]))))
    /\ [](op \in Terminals /\ pc = "done" /\ ~ctxDone => exitBy \in {"closed", "value"})
    /\ (op \in Terminals /\ ctxDone) ~> (pc = "done")

\* Reduce from the initial value 4 returned 4121 at the close of the stream
\* 1, 2, 1, never cancelled
C33_Witness ==
    /\ op = "Reduce"
    /\ n = 4
    /\ src[1] = <<1, 2, 1>>
    /\ ~ctxDone
    /\ exitBy = "closed"
    /\ ret = <<4121>>
====
